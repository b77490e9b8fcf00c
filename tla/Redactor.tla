------------------------------- MODULE Redactor -------------------------------
(***************************************************************************)
(* core/redactor.ts: what becomes of a field of a row on its way out. The  *)
(* field's name decides (it may be listed in several of the option sets),  *)
(* with the kind of its value and, for bodies, the row's method.           *)
(*                                                                         *)
(* A body or a ciphertext is reduced to its size, shape and hash, for      *)
(* which sortDeep() walks an object of the application: a graph that may   *)
(* share objects, contain itself, or throw from a getter. The arrays of a  *)
(* peer's field are walked by redactPeerValue(), which guards against      *)
(* nothing: the engine's stack is all that ends it.                        *)
(***************************************************************************)
EXTENDS Naturals, FiniteSets, Functions, SequencesExt

CONSTANTS
    Object,         \* the application's objects and arrays that are walked
    Root,           \* the one that stands in the row
    Leaf,           \* any other value
    MaxChildren,    \* bound: members of an object
    MAX_SORT_DEPTH,
    StackLimit      \* the engine's: calls that may be open

ASSUME RedactorAssumption ==
    /\ Root \in Object /\ Leaf \notin Object /\ IsFiniteSet(Object)
    /\ MaxChildren \in Nat /\ MAX_SORT_DEPTH \in Nat \ {0}
    /\ StackLimit \in Nat /\ StackLimit > MAX_SORT_DEPTH

(* The option sets a field's name may be in, and what its value may be:    *)
(* "peers" is an array, of strings, arrays and anything else.              *)
Class == {"ciphertext", "peer", "url", "text", "body"}
Value == {"undefined", "*", "string", "url", "peers", "object", "bytes"}
String == {"*", "string", "url"}

VARIABLES
    classes,        \* the sets that list the field's name
    value,
    allowed,        \* is the row's method on the body allowlist?
    result,         \* what leaves; "pending" until redact() is done with it
    graph,          \* graph[o]: the members of object o, once it was read
    stack,          \* open calls of sortDeep() or redactPeerValue(): the object
                    \* and the member that is up
    seen,           \* `seen`
    walked          \* history: the ways from the root that were walked, each the
                    \* positions it takes among the members of the objects on it

field == <<classes, value, allowed>>
redactVars == <<field, result, graph, stack, seen, walked>>

RedactInit ==
    /\ classes \in SUBSET Class
    /\ value \in Value
    /\ allowed \in BOOLEAN
    /\ result = "pending"
    /\ graph = << >>
    /\ stack = <<>> /\ seen = {} /\ walked = {}

Top == stack[Len(stack)]

-----------------------------------------------------------------------------
(* Mutants: ways the definitions below could be wrong. *)

OrderBodyEarly == <<"ciphertext", "peer", "body", "url", "text">>

UnseenNever(o) == seen

CutNothing(o) == FALSE

-----------------------------------------------------------------------------
(* The order in which redact() asks for the sets; urls and texts must be   *)
(* strings.                                                                *)
Order == <<"ciphertext", "peer", "url", "text", "body">>

Applies(c) == c \in classes /\ (c \in {"url", "text"} => value \in String)

Claim ==
    LET first == SelectInSeq(Order, Applies) IN IF first = 0 THEN "none" ELSE Order[first]

(* allowsBody(): what of a body leaves.                                    *)
BodyValue == IF allowed THEN "full" ELSE "summary"

(* redactPeerValue(): a string is hashed, a broadcast stays one, an array  *)
(* is walked and hashed element by element; nothing else is touched.       *)
PeerValue == IF value \in {"string", "url", "peers"} THEN "hashed" ELSE "full"

(* redactUrl(): scheme and host, if it parses.                             *)
UrlValue == IF value = "url" THEN "host" ELSE "marker"

Rule ==
    CASE Claim = "ciphertext" -> "ciphertext"
      [] Claim = "peer" -> PeerValue
      [] Claim = "url" -> UrlValue
      [] Claim = "text" -> "hashed"
      [] Claim = "body" -> BodyValue
      [] Claim = "none" -> "full"

(* summarizeBody() and summarizeCiphertext() hash an object or an array.   *)
NeedsWalk ==
    \/ value \in {"object", "peers"} /\ Rule \in {"ciphertext", "summary"}
    \/ value = "peers" /\ Claim = "peer"

(* redact() of the field, where no object has to be walked.                *)
Redact ==
    /\ result = "pending" /\ stack = <<>>
    /\ value = "undefined" \/ ~NeedsWalk
    /\ result' = IF value = "undefined" THEN "omitted" ELSE Rule
    /\ UNCHANGED <<field, graph, stack, seen, walked>>

(* A call for an object, whose members are whatever the application put    *)
(* there; sortDeep() remembers that it is being walked.                    *)
Enter(o, open) ==
    /\ IF o \in DOMAIN graph
         THEN UNCHANGED graph
         ELSE \E members \in BoundedSeq(Object \union {Leaf}, MaxChildren) :
                 graph' = [x \in DOMAIN graph \union {o} |-> IF x = o THEN members ELSE graph[x]]
    /\ stack' = Append(open, [object |-> o, next |-> 1])
    /\ IF Claim = "peer"
         THEN UNCHANGED <<seen, walked>>
         ELSE /\ seen' = seen \union {o}
              /\ walked' = walked \union {[i \in DOMAIN open |-> open[i].next - 1]}

(* stableStringify(), or redactPeerValue() of an array.                    *)
Walk ==
    /\ result = "pending" /\ stack = <<>>
    /\ NeedsWalk
    /\ Enter(Root, stack)
    /\ UNCHANGED <<field, result>>

(* sortDeep() does not go into what is too deep or being walked already;   *)
(* redactPeerValue() goes into every array.                                *)
Cut(o) == Claim # "peer" /\ (Len(stack) >= MAX_SORT_DEPTH \/ o \in seen)

Up == [stack EXCEPT ![Len(stack)].next = @ + 1]

(* The next member: walked, or a value, "[MaxDepth]" or "[Circular]".      *)
Member ==
    /\ stack # <<>>
    /\ Top.next <= Len(graph[Top.object])
    /\ LET o == graph[Top.object][Top.next]
       IN  IF o = Leaf \/ Cut(o)
             THEN stack' = Up /\ UNCHANGED <<graph, seen, walked>>
             ELSE Len(stack) < StackLimit /\ Enter(o, Up)
    /\ UNCHANGED <<field, result>>

(* There is no room for another call: a RangeError, through every open     *)
(* call and out of redact().                                               *)
Overflow ==
    /\ stack # <<>> /\ Len(stack) = StackLimit
    /\ Top.next <= Len(graph[Top.object])
    /\ LET o == graph[Top.object][Top.next] IN o # Leaf /\ ~Cut(o)
    /\ stack' = <<>> /\ seen' = {}
    /\ result' = "overflow"
    /\ UNCHANGED <<field, graph, walked>>

(* A body is not done with its hash: summarizeShape() reads its members    *)
(* once more, cut at a depth of its own, and so may a getter throw again.  *)
Summaries == IF Rule = "summary" THEN {"summary", "threw"} ELSE {Rule}

(* The `finally` of sortDeep().                                            *)
Unseen(o) == seen \ {o}

Leave ==
    /\ stack # <<>>
    /\ Top.next > Len(graph[Top.object])
    /\ stack' = Front(stack)
    /\ seen' = Unseen(Top.object)
    /\ result' \in IF Len(stack) = 1 THEN Summaries ELSE {result}
    /\ UNCHANGED <<field, graph, walked>>

(* A getter throws, through every open call and out of redact().           *)
GetterThrows ==
    /\ stack # <<>>
    /\ Top.next <= Len(graph[Top.object])
    /\ stack' = <<>> /\ seen' = {}
    /\ result' = "threw"
    /\ UNCHANGED <<field, graph, walked>>

RedactNext == Redact \/ Walk \/ Member \/ Overflow \/ Leave \/ GetterThrows

RedactSpec == RedactInit /\ [][RedactNext]_redactVars

-----------------------------------------------------------------------------
(* The ways from the root that are not too deep and meet no object twice.  *)
Follow(o, i) == IF o \in DOMAIN graph /\ i \in DOMAIN graph[o] THEN graph[o][i] ELSE Leaf
Trails(way) ==
    {at \in [0 .. Len(way) -> Object] :
        at[0] = Root /\ \A k \in 1 .. Len(way) : at[k] = Follow(at[k - 1], way[k])}
SimpleWays ==
    {way \in BoundedSeq(1 .. MaxChildren, MAX_SORT_DEPTH - 1) :
        \E at \in Trails(way) : IsInjective(at)}

(* Whatever the application put in the row - shared, circular or deep -    *)
(* sortDeep() goes every way that meets no object twice and is not too     *)
(* deep, and no other: an object repeated in sibling positions is walked   *)
(* again, never taken for circular (redactor.ts:124-128), so that equal    *)
(* contents have equal hashes.                                             *)
WalksEveryWay ==
    /\ walked \subseteq SimpleWays
    /\ walked # {} /\ result \notin {"pending", "threw"} => walked = SimpleWays

(* At most MAX_SORT_DEPTH calls of sortDeep() are open.                    *)
StackBounded == Claim # "peer" => Len(stack) <= MAX_SORT_DEPTH

(* Objects of the application: the first stands in the row, and each of    *)
(* the others is a member of the one before it.                            *)
Nested(chain) ==
    /\ chain[0] = Root
    /\ \A k \in 1 .. StackLimit : \E i \in 1 .. MaxChildren : chain[k] = Follow(chain[k - 1], i)

(* "Walks objects the APP owns, so a self-referencing one must not blow    *)
(* the stack inside the flush timer" (redactor.ts:125-126): no body and no *)
(* ciphertext does, however deep it is and wherever it contains itself.    *)
(* What does is the array of a peer's field whose arrays nest as deep as   *)
(* the stack, or contain one another (redactor.ts:284-288).                *)
StackSuffices ==
    result = "overflow" => Claim = "peer" /\ \E chain \in [0 .. StackLimit -> Object] : Nested(chain)

(* The claim of the test, for every field: "a CYCLIC payload no longer     *)
(* throws (was RangeError)" (flush-guard.test.mjs:103).                    *)
NeverOverflows == result # "overflow"

(* What leaves as it is, of a field that an option set lists (redactor.ts: *)
(* 258-279): never what is listed as a ciphertext; of strings, only the    *)
(* broadcast of a peer and the body of an allowlisted method that is       *)
(* listed as nothing else. Objects and bytes leave so in two more cases:   *)
(* listed as a peer, and as a body or not; and listed as a url or a text,  *)
(* but not as a body.                                                      *)
AllowlistOpensBodiesOnly ==
    result = "full" /\ classes # {} =>
        /\ "ciphertext" \notin classes
        /\ "peer" \in classes => value \in {"*", "object", "bytes"}
        /\ "body" \in classes => allowed \/ "peer" \in classes
        /\ value \in String => "peer" \in classes \/ classes = {"body"}

(* "Bodies OFF by default. Present in full ONLY for an allowlisted method" *)
(* (redactor.ts:274).                                                      *)
BodiesOnlyForAllowlisted ==
    result = "full" /\ "body" \in classes /\ value # "*" => allowed
=============================================================================
