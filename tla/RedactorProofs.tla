---------------------------- MODULE RedactorProofs ----------------------------
(***************************************************************************)
(* Proofs about Redactor, for any application objects, any number of their *)
(* members and any depth limit: what the allowlist opens, and that the     *)
(* walk of an object goes every way that meets no object twice, and stays  *)
(* within its limit. What is left to walk always lies ahead of the stack:  *)
(* beside one of its open calls, at a member that has not been up yet. Of  *)
(* the arrays of a peer only the chain of open calls is kept.              *)
(***************************************************************************)
EXTENDS Redactor, SequenceTheorems, NaturalsInduction, WellFoundedInduction, TLAPS

Frame == [object : Object, next : Nat \ {0}]

Typed ==
    /\ stack \in Seq(Frame)
    /\ DOMAIN graph \subseteq Object
    /\ \A o \in DOMAIN graph : \E m \in 0 .. MaxChildren : graph[o] \in [1 .. m -> Object \union {Leaf}]

(* Each open call but the innermost has the next one's object for the      *)
(* member before the one that is up.                                       *)
Path ==
    /\ Len(stack) <= MAX_SORT_DEPTH
    /\ stack # <<>> => stack[1].object = Root
    /\ \A i \in 1 .. Len(stack) : stack[i].object \in DOMAIN graph
    /\ \A i \in 1 .. Len(stack) - 1 :
          /\ stack[i].next - 1 \in DOMAIN graph[stack[i].object]
          /\ graph[stack[i].object][stack[i].next - 1] = stack[i + 1].object
    /\ \A i, j \in 1 .. Len(stack) : stack[i].object = stack[j].object => i = j
    /\ seen = {stack[i].object : i \in 1 .. Len(stack)}

(* What was walked was read to its end, and meets no object twice.         *)
WalkedRead ==
    \A w \in walked :
        /\ w \in BoundedSeq(1 .. MaxChildren, MAX_SORT_DEPTH - 1)
        /\ \E at \in Trails(w) : IsInjective(at) /\ at[Len(w)] \in DOMAIN graph

(* A way that follows the open calls down to the k-th, and there takes a   *)
(* member that has not been up yet.                                        *)
AheadAt(w, k) ==
    /\ k <= Len(w)
    /\ \A i \in 1 .. k - 1 : w[i] = stack[i].next - 1
    /\ w[k] >= stack[k].next

Ahead(w) == \E k \in 1 .. Len(stack) : AheadAt(w, k)

NothingMissed ==
    walked # {} /\ result # "threw" => \A w \in SimpleWays : w \in walked \/ Ahead(w)

Phases ==
    /\ stack # <<>> => result = "pending" /\ walked # {}
    /\ stack = <<>> /\ walked # {} => result # "pending"
    /\ result # "overflow"

WalkInv == Typed /\ Path /\ WalkedRead /\ NothingMissed /\ Phases

(* Of the open calls of redactPeerValue() each is for a member of the      *)
(* array of the one outside it.                                            *)
Chain ==
    /\ Len(stack) <= StackLimit
    /\ stack # <<>> => stack[1].object = Root /\ result = "pending"
    /\ \A i \in 1 .. Len(stack) : stack[i].object \in DOMAIN graph
    /\ \A i \in 1 .. Len(stack) - 1 :
          \E j \in 1 .. MaxChildren : Follow(stack[i].object, j) = stack[i + 1].object

PeerInv == Typed /\ Chain /\ walked = {} /\ StackSuffices

IInv == IF Claim = "peer" THEN PeerInv ELSE WalkInv

-----------------------------------------------------------------------------
LEMMA LeastOf == \A T : T \subseteq Nat /\ T # {} => \E m \in T : \A k \in T : m <= k
<1> SUFFICES ASSUME NEW T, T \subseteq Nat, T # {} PROVE \E m \in T : \A k \in T : m <= k
  OBVIOUS
<1>1. PICK m \in T : \A k \in T : <<k, m>> \notin OpToRel(<, Nat)
  BY NatLessThanWellFounded, WFMin, Zenon
<1>2. \A k \in T : ~(k < m)
  BY <1>1, Zenon DEF OpToRel
<1>3. \A k \in T : m <= k
  BY <1>2, SMT
<1> QED
  BY <1>3

(* The first set that applies claims the field.                            *)
LEMMA FirstClaims ==
    \/ Claim = "none" /\ \A i \in 1 .. 5 : ~Applies(Order[i])
    \/ \E i \in 1 .. 5 : Claim = Order[i] /\ Applies(Order[i]) /\ \A j \in 1 .. i - 1 : ~Applies(Order[j])
<1> DEFINE I == {i \in 1 .. Len(Order) : Applies(Order[i])}
<1>1. Len(Order) = 5
  BY DEF Order
<1>2. I = {i \in 1 .. 5 : Applies(Order[i])}
  BY <1>1
<1>3. SelectInSeq(Order, Applies) = IF I # {} THEN Min(I) ELSE 0
  BY DEF SelectInSeq
<1>4. CASE I = {}
  <2>1. SelectInSeq(Order, Applies) = 0
    BY <1>3, <1>4
  <2>2. Claim = "none"
    BY <2>1 DEF Claim
  <2> QED
    BY <1>2, <1>4, <2>2
<1>5. CASE I # {}
  <2>1. I \subseteq Nat
    BY SMT
  <2> HIDE DEF I
  <2>2. PICK i \in I : \A k \in I : i <= k
    BY <1>5, <2>1, LeastOf
  <2>3. PICK m : m = Min(I) /\ m \in I /\ \A k \in I : m <= k
    BY <2>2 DEF Min
  <2>4. m \in 1 .. 5 /\ Applies(Order[m])
    BY <1>2, <2>3
  <2>5. m # 0
    BY <2>4, SMT
  <2>6. Claim = Order[m]
    BY <1>3, <1>5, <2>3, <2>5 DEF Claim
  <2>7. \A j \in 1 .. m - 1 : j \in 1 .. 5 /\ ~(m <= j)
    BY <2>4, SMT
  <2>8. \A j \in 1 .. m - 1 : ~Applies(Order[j])
    BY <1>2, <2>3, <2>7
  <2> QED
    BY <2>4, <2>6, <2>8
<1> QED
  BY <1>4, <1>5

LEMMA OrderIs ==
    /\ Order[1] = "ciphertext" /\ Order[2] = "peer" /\ Order[3] = "url"
    /\ Order[4] = "text" /\ Order[5] = "body"
BY DEF Order

LEMMA Claims ==
    \/ Claim = "none" /\ \A c \in Class : ~Applies(c)
    \/ Claim = "ciphertext"
    \/ Claim = "peer" /\ Applies("peer") /\ ~Applies("ciphertext")
    \/ Claim = "url" /\ Applies("url")
    \/ Claim = "text" /\ Applies("text")
    \/ Claim = "body" /\ Applies("body") /\ \A c \in Class \ {"body"} : ~Applies(c)
<1>1. CASE Claim = "none" /\ \A i \in 1 .. 5 : ~Applies(Order[i])
  <2>1. \A c \in Class : \E i \in 1 .. 5 : c = Order[i]
    BY OrderIs, SMT DEF Class
  <2> QED
    BY <1>1, <2>1
<1>2. ASSUME NEW i \in 1 .. 5, Claim = Order[i], Applies(Order[i]),
             \A j \in 1 .. i - 1 : ~Applies(Order[j])
      PROVE  \/ Claim = "ciphertext"
             \/ Claim = "peer" /\ Applies("peer") /\ ~Applies("ciphertext")
             \/ Claim = "url" /\ Applies("url")
             \/ Claim = "text" /\ Applies("text")
             \/ Claim = "body" /\ Applies("body") /\ \A c \in Class \ {"body"} : ~Applies(c)
  <2>1. i = 1 \/ i = 2 \/ i = 3 \/ i = 4 \/ i = 5
    BY SMT
  <2>2. i = 2 => 1 \in 1 .. i - 1
    BY SMT
  <2>3. i = 5 => 1 \in 1 .. i - 1 /\ 2 \in 1 .. i - 1 /\ 3 \in 1 .. i - 1 /\ 4 \in 1 .. i - 1
    BY SMT
  <2>4. CASE i = 2
    BY <1>2, <2>2, <2>4, OrderIs
  <2>5. CASE i = 5
    <3>1. ~Applies("ciphertext") /\ ~Applies("peer") /\ ~Applies("url") /\ ~Applies("text")
      BY <1>2, <2>3, <2>5, OrderIs
    <3>2. Claim = "body" /\ Applies("body")
      BY <1>2, <2>5, OrderIs
    <3>3. \A c \in Class \ {"body"} : c \in {"ciphertext", "peer", "url", "text"}
      BY DEF Class
    <3> QED
      BY <3>1, <3>2, <3>3
  <2> QED
    BY <1>2, <2>1, <2>4, <2>5, OrderIs
<1> QED
  BY <1>1, <1>2, FirstClaims

LEMMA RuleIs ==
    /\ Claim = "ciphertext" => Rule = "ciphertext"
    /\ Claim = "peer" => Rule = PeerValue
    /\ Claim = "url" => Rule = UrlValue
    /\ Claim = "text" => Rule = "hashed"
    /\ Claim = "body" => Rule = BodyValue
    /\ Claim = "none" => Rule = "full"
BY Zenon DEF Rule

LEMMA RuleIsAResult == Rule \notin {"pending", "overflow"}
BY Claims, RuleIs DEF PeerValue, UrlValue, BodyValue

LEMMA ClaimStays == ASSUME UNCHANGED field PROVE Claim' = Claim /\ Rule' = Rule
<1>1. \A c : Applies(c)' <=> Applies(c)
  BY DEF Applies, field
<1>2. SelectInSeq(Order, Applies)' = SelectInSeq(Order, Applies)
  BY <1>1 DEF SelectInSeq, Order
<1>3. Claim' = Claim
  BY <1>2 DEF Claim, Order
<1> QED
  BY <1>3 DEF Rule, PeerValue, UrlValue, BodyValue, field

(* What leaves in full was allowed to.                                     *)
LEMMA OpenedByAllowlist ==
    ASSUME classes \subseteq Class, value \in Value, Rule = "full", classes # {}
    PROVE  /\ "ciphertext" \notin classes
           /\ "peer" \in classes => value \in {"*", "object", "bytes", "undefined"}
           /\ "body" \in classes => allowed \/ "peer" \in classes
           /\ value \in String => "peer" \in classes \/ classes = {"body"}
<1>1. Applies("ciphertext") <=> "ciphertext" \in classes
  BY DEF Applies
<1>2. Applies("peer") <=> "peer" \in classes
  BY DEF Applies
<1>3. Applies("body") <=> "body" \in classes
  BY DEF Applies
<1>4. \A c \in classes : value \in String => Applies(c)
  BY DEF Applies
<1>5. CASE Claim = "none" /\ \A c \in Class : ~Applies(c)
  BY <1>1, <1>2, <1>3, <1>4, <1>5 DEF Class
<1>6. CASE Claim = "ciphertext"
  BY <1>6, RuleIs
<1>7. CASE Claim = "peer" /\ Applies("peer") /\ ~Applies("ciphertext")
  <2>1. value \notin {"string", "url", "peers"}
    BY <1>7, RuleIs DEF PeerValue
  <2> QED
    BY <1>1, <1>2, <1>7, <2>1 DEF Value
<1>8. CASE Claim = "url"
  BY <1>8, RuleIs DEF UrlValue
<1>9. CASE Claim = "text"
  BY <1>9, RuleIs
<1>10. CASE Claim = "body" /\ Applies("body") /\ \A c \in Class \ {"body"} : ~Applies(c)
  <2>1. allowed
    BY <1>10, RuleIs DEF BodyValue
  <2>2. value \in String => classes = {"body"}
    BY <1>3, <1>4, <1>10
  <2>3. "ciphertext" \notin classes /\ "peer" \notin classes
    BY <1>1, <1>2, <1>10 DEF Class
  <2> QED
    BY <2>1, <2>2, <2>3
<1> QED
  BY <1>5, <1>6, <1>7, <1>8, <1>9, <1>10, Claims

-----------------------------------------------------------------------------
(* A way is a finite function to positions, of a length within the limit.  *)
LEMMA WayIs ==
    \A w : w \in BoundedSeq(1 .. MaxChildren, MAX_SORT_DEPTH - 1) <=>
        \E m \in 0 .. MAX_SORT_DEPTH - 1 : w \in [1 .. m -> 1 .. MaxChildren] /\ Len(w) = m
<1>1. ASSUME NEW m \in 0 .. MAX_SORT_DEPTH - 1, NEW w \in [1 .. m -> 1 .. MaxChildren]
      PROVE  Len(w) = m
  <2>1. m \in Nat
    BY SMT
  <2>2. w \in Seq(1 .. MaxChildren)
    BY <2>1, SeqDef
  <2>3. DOMAIN w = 1 .. m /\ Len(w) \in Nat /\ DOMAIN w = 1 .. Len(w)
    BY <2>2, LenProperties
  <2> QED
    BY <2>1, <2>3, SMT
<1> QED
  BY <1>1 DEF BoundedSeq, SeqOf

(* A way leads through one sequence of objects.                            *)
LEMMA SameTrail ==
    ASSUME NEW w, Len(w) \in Nat, NEW a \in Trails(w), NEW b \in Trails(w)
    PROVE  a = b
<1>1. PICK m \in Nat : m = Len(w)
  OBVIOUS
<1>2. /\ a \in [0 .. m -> Object] /\ b \in [0 .. m -> Object] /\ a[0] = b[0]
      /\ \A k \in 1 .. m : a[k] = Follow(a[k - 1], w[k]) /\ b[k] = Follow(b[k - 1], w[k])
  BY <1>1 DEF Trails
<1> DEFINE T == {k \in 0 .. m : a[k] # b[k]}
<1>3. CASE T = {}
  BY <1>2, <1>3
<1>4. CASE T # {}
  <2>1. T \subseteq Nat
    BY SMT
  <2>2. PICK k \in T : \A j \in T : k <= j
    <3> HIDE DEF T
    <3> QED
      BY <1>4, <2>1, LeastOf
  <2>3. k \in 1 .. m /\ k - 1 \in 0 .. m /\ ~(k <= k - 1)
    BY <1>2, <2>2, SMT
  <2>4. a[k - 1] = b[k - 1]
    BY <2>2, <2>3
  <2> QED
    BY <1>2, <2>2, <2>3, <2>4
<1> QED
  BY <1>3, <1>4

(* A way that goes down the open calls meets their objects.                *)
GoesDown(w, k) ==
    /\ Len(stack) \in Nat /\ k \in 1 .. Len(stack)
    /\ Len(w) \in Nat /\ k <= Len(w) + 1
    /\ \A i \in 1 .. k - 1 : w[i] = stack[i].next - 1

Meets(at, k) == \A i \in 1 .. k : at[i - 1] = stack[i].object

LEMMA OnStack ==
    ASSUME Path, NEW w, NEW k, GoesDown(w, k), NEW at \in Trails(w)
    PROVE  Meets(at, k)
<1>0. PICK n \in Nat, m \in Nat :
         /\ n = Len(stack) /\ m = Len(w) /\ k \in 1 .. n /\ k <= m + 1
         /\ \A i \in 1 .. k - 1 : w[i] = stack[i].next - 1
  BY DEF GoesDown
<1>1. /\ at \in [0 .. m -> Object] /\ at[0] = Root
      /\ \A j \in 1 .. m : at[j] = Follow(at[j - 1], w[j])
  BY <1>0 DEF Trails
<1>2. /\ stack[1].object = Root
      /\ \A i \in 1 .. n : stack[i].object \in DOMAIN graph
      /\ \A i \in 1 .. n - 1 :
            /\ stack[i].next - 1 \in DOMAIN graph[stack[i].object]
            /\ graph[stack[i].object][stack[i].next - 1] = stack[i + 1].object
  <2>1. stack # <<>>
    <3>1. Len(<<>>) = 0 /\ n # 0
      BY <1>0, SMT
    <3> QED
      BY <1>0, <3>1
  <2> QED
    BY <1>0, <2>1 DEF Path
<1> DEFINE T == {i \in 1 .. k : at[i - 1] # stack[i].object}
<1>3. CASE T # {}
  <2>1. T \subseteq Nat
    BY <1>0, SMT
  <2>2. PICK i \in T : \A j \in T : i <= j
    <3> HIDE DEF T
    <3> QED
      BY <1>3, <2>1, LeastOf
  <2>3. i # 1
    <3>1. 1 - 1 = 0
      BY SMT
    <3> QED
      BY <1>1, <1>2, <2>2, <3>1
  <2>4. PICK j \in Nat : j = i - 1
    BY <2>2, SMT
  <2>5. /\ j \in 1 .. k /\ j \in 1 .. n - 1 /\ j \in 1 .. m /\ j \in 1 .. k - 1 /\ j \in 1 .. n
        /\ j + 1 = i /\ ~(i <= j)
    BY <1>0, <2>2, <2>3, <2>4, SMT
  <2>6. at[j - 1] = stack[j].object
    BY <2>2, <2>5
  <2>7. w[j] = stack[j].next - 1
    BY <1>0, <2>5
  <2>8. at[j] = Follow(stack[j].object, stack[j].next - 1)
    BY <1>1, <2>5, <2>6, <2>7
  <2>9. Follow(stack[j].object, stack[j].next - 1) = stack[i].object
    BY <1>2, <2>5 DEF Follow
  <2> QED
    BY <2>2, <2>4, <2>8, <2>9
<1> QED
  BY <1>3 DEF Meets

(* The way that the open calls after a step have gone is one to the        *)
(* innermost of their objects, and meets no object twice.                  *)
LEMMA StackWay ==
    ASSUME Typed', Path', NEW n \in Nat \ {0}, n = Len(stack'),
           NEW w, w = [i \in 1 .. n - 1 |-> stack'[i].next - 1]
    PROVE  /\ w \in BoundedSeq(1 .. MaxChildren, MAX_SORT_DEPTH - 1) /\ Len(w) = n - 1
           /\ \E at \in Trails(w)' : IsInjective(at) /\ at[n - 1] = stack'[n].object
<1>1. /\ n <= MAX_SORT_DEPTH /\ stack'[1].object = Root
      /\ \A i \in 1 .. n : stack'[i].object \in DOMAIN graph'
      /\ \A i \in 1 .. n - 1 :
            /\ stack'[i].next - 1 \in DOMAIN graph'[stack'[i].object]
            /\ graph'[stack'[i].object][stack'[i].next - 1] = stack'[i + 1].object
      /\ \A i, j \in 1 .. n : stack'[i].object = stack'[j].object => i = j
  <2>1. stack' # <<>>
    <3>1. Len(<<>>) = 0 /\ n # 0
      BY SMT
    <3> QED
      BY <3>1
  <2> QED
    BY <2>1 DEF Path
<1>2. PICK m \in Nat : m = n - 1 /\ m \in 0 .. MAX_SORT_DEPTH - 1 /\ n = m + 1
  <2>1. n <= MAX_SORT_DEPTH /\ MAX_SORT_DEPTH \in Nat
    BY <1>1, RedactorAssumption
  <2>2. n - 1 \in Nat /\ n - 1 \in 0 .. MAX_SORT_DEPTH - 1 /\ n = (n - 1) + 1
    BY <2>1, SMT
  <2> QED
    BY <2>2
<1>3. \A i \in 1 .. m : i \in 1 .. n /\ i + 1 \in 1 .. n /\ (i - 1) + 1 = i
  BY <1>2, SMT
<1>4. \A i \in 1 .. m : w[i] \in 1 .. MaxChildren
  <2> SUFFICES ASSUME NEW i \in 1 .. m PROVE w[i] \in 1 .. MaxChildren
    OBVIOUS
  <2>1. stack'[i].object \in DOMAIN graph'
    BY <1>1, <1>3
  <2>2. PICK c \in 0 .. MaxChildren : graph'[stack'[i].object] \in [1 .. c -> Object \union {Leaf}]
    BY <2>1 DEF Typed
  <2>3. w[i] \in 1 .. c
    BY <1>1, <1>2, <2>2
  <2> QED
    BY <2>3, RedactorAssumption, SMT
<1>5. w \in [1 .. m -> 1 .. MaxChildren]
  BY <1>2, <1>4
<1>6. w \in BoundedSeq(1 .. MaxChildren, MAX_SORT_DEPTH - 1) /\ Len(w) = m
  <2>1. Len(w) = m
    <3>1. w \in Seq(1 .. MaxChildren)
      BY <1>5, SeqDef
    <3>2. DOMAIN w = 1 .. m /\ Len(w) \in Nat /\ DOMAIN w = 1 .. Len(w)
      BY <1>5, <3>1, LenProperties
    <3> QED
      BY <3>2, SMT
  <2> QED
    BY <1>2, <1>5, <2>1, WayIs
<1>7. PICK at : at = [k \in 0 .. m |-> stack'[k + 1].object]
  OBVIOUS
<1>8. \A k \in 0 .. m : k + 1 \in 1 .. n
  BY <1>2, SMT
<1>9. at \in [0 .. m -> Object] /\ at[0] = Root
  <2>1. \A i \in 1 .. n : stack'[i].object \in Object
    BY <1>1 DEF Typed
  <2>2. 0 \in 0 .. m /\ 0 + 1 = 1
    BY SMT
  <2> QED
    BY <1>1, <1>7, <1>8, <2>1, <2>2
<1>10. \A k \in 1 .. m : at[k] = Follow(at[k - 1], w[k])'
  <2> SUFFICES ASSUME NEW k \in 1 .. m PROVE at[k] = Follow(at[k - 1], w[k])'
    OBVIOUS
  <2>1. k \in 0 .. m /\ k - 1 \in 0 .. m
    BY SMT
  <2>2. at[k] = stack'[k + 1].object /\ at[k - 1] = stack'[k].object /\ w[k] = stack'[k].next - 1
    BY <1>2, <1>3, <1>7, <2>1
  <2>3. /\ at[k - 1] \in DOMAIN graph' /\ w[k] \in DOMAIN graph'[at[k - 1]]
        /\ graph'[at[k - 1]][w[k]] = at[k]
    BY <1>1, <1>2, <1>3, <2>2
  <2> QED
    BY <2>3 DEF Follow
<1>11. at \in Trails(w)'
  BY <1>6, <1>9, <1>10 DEF Trails
<1>12. IsInjective(at)
  <2> SUFFICES ASSUME NEW i \in 0 .. m, NEW j \in 0 .. m, at[i] = at[j] PROVE i = j
    BY <1>9 DEF IsInjective
  <2>1. i + 1 = j + 1
    BY <1>1, <1>7, <1>8
  <2> QED
    BY <2>1, SMT
<1>13. at[n - 1] = stack'[n].object
  <2>1. m \in 0 .. m
    BY SMT
  <2> QED
    BY <1>2, <1>7, <2>1
<1> QED
  BY <1>2, <1>6, <1>11, <1>12, <1>13

-----------------------------------------------------------------------------
(* A step reads at most object o.                                          *)
Reads(o) ==
    \/ graph' = graph
    \/ /\ o \notin DOMAIN graph
       /\ DOMAIN graph' = DOMAIN graph \union {o}
       /\ \A x \in DOMAIN graph : graph'[x] = graph[x]

LEMMA EnterReads ==
    ASSUME Typed, NEW o \in Object, NEW open, Enter(o, open)
    PROVE  /\ Reads(o) /\ o \in DOMAIN graph' /\ DOMAIN graph' \subseteq Object
           /\ DOMAIN graph \subseteq DOMAIN graph' /\ \A x \in DOMAIN graph : graph'[x] = graph[x]
           /\ \A x \in DOMAIN graph' :
                 \E m \in 0 .. MaxChildren : graph'[x] \in [1 .. m -> Object \union {Leaf}]
<1>1. CASE o \in DOMAIN graph /\ UNCHANGED graph
  BY <1>1 DEF Reads, Typed
<1>2. CASE /\ o \notin DOMAIN graph
           /\ \E members \in BoundedSeq(Object \union {Leaf}, MaxChildren) :
                 graph' = [x \in DOMAIN graph \union {o} |-> IF x = o THEN members ELSE graph[x]]
  <2>1. PICK members \in BoundedSeq(Object \union {Leaf}, MaxChildren) :
               graph' = [x \in DOMAIN graph \union {o} |-> IF x = o THEN members ELSE graph[x]]
    BY <1>2
  <2>2. PICK m \in 0 .. MaxChildren : members \in [1 .. m -> Object \union {Leaf}]
    BY DEF BoundedSeq, SeqOf
  <2>3. /\ DOMAIN graph' = DOMAIN graph \union {o}
        /\ \A x \in DOMAIN graph : graph'[x] = graph[x]
        /\ graph'[o] = members
    BY <1>2, <2>1
  <2> QED
    BY <1>2, <2>2, <2>3 DEF Reads, Typed
<1> QED
  BY <1>1, <1>2 DEF Enter

LEMMA TrailsStay ==
    ASSUME NEW o, Reads(o), NEW w, NEW at \in Trails(w)
    PROVE  at \in Trails(w)'
<1>1. /\ at \in [0 .. Len(w) -> Object] /\ at[0] = Root
      /\ \A k \in 1 .. Len(w) : at[k] = Follow(at[k - 1], w[k])
  BY DEF Trails
<1>2. ASSUME NEW k \in 1 .. Len(w) PROVE at[k] = Follow(at[k - 1], w[k])'
  <2>1. at[k] = Follow(at[k - 1], w[k])
    BY <1>1
  <2>2. at[k] # Leaf
    <3>1. at[k] \in Object
      <4>1. k \in 0 .. Len(w)
        BY SMT
      <4> QED
        BY <1>1, <4>1
    <3> QED
      BY <3>1, RedactorAssumption
  <2>3. at[k - 1] \in DOMAIN graph /\ w[k] \in DOMAIN graph[at[k - 1]] /\ at[k] = graph[at[k - 1]][w[k]]
    BY <2>1, <2>2 DEF Follow
  <2>4. at[k - 1] \in DOMAIN graph' /\ graph'[at[k - 1]] = graph[at[k - 1]]
    BY <2>3 DEF Reads
  <2> QED
    BY <2>3, <2>4 DEF Follow
<1> QED
  BY <1>1, <1>2 DEF Trails

(* A way that leads on from an object just read is ahead, as is its part   *)
(* up to that object.                                                      *)
LEMMA StillMissed ==
    ASSUME WalkInv, walked # {}, result # "threw", NEW o, Reads(o), NEW w \in SimpleWays'
    PROVE  w \in walked \/ Ahead(w)
<1>1. PICK at \in Trails(w)' : IsInjective(at)
  BY DEF SimpleWays
<1>2. PICK m \in 0 .. MAX_SORT_DEPTH - 1 : w \in [1 .. m -> 1 .. MaxChildren] /\ Len(w) = m
  <2>1. w \in BoundedSeq(1 .. MaxChildren, MAX_SORT_DEPTH - 1)
    BY DEF SimpleWays
  <2> QED
    BY <2>1, WayIs
<1>3. /\ at \in [0 .. m -> Object] /\ at[0] = Root
      /\ \A k \in 1 .. m : at[k] = Follow(at[k - 1], w[k])'
  BY <1>1, <1>2 DEF Trails
<1>4. \A v \in SimpleWays : v \in walked \/ Ahead(v)
  BY DEF WalkInv, NothingMissed
<1>5. \A x, i : x # o \/ graph' = graph => Follow(x, i)' = Follow(x, i)
  BY DEF Reads, Follow
<1>6. CASE \A k \in 1 .. m : at[k - 1] # o \/ graph' = graph
  <2>1. \A k \in 1 .. m : at[k] = Follow(at[k - 1], w[k])
    BY <1>3, <1>5, <1>6
  <2>2. at \in Trails(w)
    BY <1>2, <1>3, <2>1 DEF Trails
  <2>3. w \in SimpleWays
    BY <1>1, <1>2, <2>2, WayIs DEF SimpleWays
  <2> QED
    BY <1>4, <2>3
<1>7. CASE \E k \in 1 .. m : at[k - 1] = o /\ graph' # graph
  <2>1. PICK k \in 1 .. m : at[k - 1] = o
    BY <1>7
  <2>2. o \notin DOMAIN graph
    BY <1>7 DEF Reads
  <2>3. PICK j \in Nat : j = k - 1
    BY SMT
  <2>4. /\ j \in 0 .. MAX_SORT_DEPTH - 1 /\ j <= m /\ j \in 0 .. m /\ j \in 0 .. j
        /\ 1 .. j \subseteq 1 .. m /\ 0 .. j \subseteq 0 .. m /\ m \in Nat
        /\ \A i \in 1 .. j : i - 1 \in 0 .. m /\ i - 1 # j /\ i - 1 \in 0 .. j /\ i \in 0 .. j
    BY <2>1, <2>3, RedactorAssumption, SMT
  <2>5. PICK u : u = [i \in 1 .. j |-> w[i]]
    OBVIOUS
  <2>6. u \in [1 .. j -> 1 .. MaxChildren]
    BY <1>2, <2>4, <2>5
  <2>7. u \in BoundedSeq(1 .. MaxChildren, MAX_SORT_DEPTH - 1) /\ Len(u) = j
    <3>1. u \in Seq(1 .. MaxChildren)
      BY <2>6, SeqDef
    <3>2. DOMAIN u = 1 .. j /\ Len(u) \in Nat /\ DOMAIN u = 1 .. Len(u)
      BY <2>6, <3>1, LenProperties
    <3>3. Len(u) = j
      BY <3>2, SMT
    <3> QED
      BY <2>4, <2>6, <3>3, WayIs
  <2>8. PICK b : b = [i \in 0 .. j |-> at[i]]
    OBVIOUS
  <2>9. b \in [0 .. j -> Object] /\ b[0] = Root /\ b[j] = o
    <3>1. 0 \in 0 .. j
      BY SMT
    <3> QED
      BY <1>3, <2>1, <2>3, <2>4, <2>8, <3>1
  <2>10. ASSUME NEW i \in 1 .. j PROVE b[i] = Follow(b[i - 1], u[i])
    <3>1. b[i] = at[i] /\ b[i - 1] = at[i - 1] /\ u[i] = w[i] /\ i \in 1 .. m
      BY <2>4, <2>5, <2>8
    <3>2. at[i - 1] # o
      BY <1>1, <1>3, <2>1, <2>3, <2>4 DEF IsInjective
    <3> QED
      BY <1>3, <1>5, <3>1, <3>2
  <2>11. b \in Trails(u)
    BY <2>7, <2>9, <2>10 DEF Trails
  <2>12. IsInjective(b)
    BY <1>1, <1>3, <2>4, <2>8 DEF IsInjective
  <2>13. u \in SimpleWays
    BY <2>7, <2>11, <2>12 DEF SimpleWays
  <2>14. u \notin walked
    <3> SUFFICES ASSUME u \in walked PROVE FALSE
      OBVIOUS
    <3>1. PICK c \in Trails(u) : c[Len(u)] \in DOMAIN graph
      BY DEF WalkInv, WalkedRead
    <3>2. c = b
      BY <2>3, <2>7, <2>11, SameTrail
    <3> QED
      BY <2>2, <2>7, <2>9, <3>1, <3>2
  <2>15. PICK i \in 1 .. Len(stack) : AheadAt(u, i)
    BY <1>4, <2>13, <2>14 DEF Ahead
  <2>16. i \in Nat /\ i >= 1
    BY SMT
  <2>17. i <= j /\ i <= m /\ i \in 1 .. j /\ \A h \in 1 .. i - 1 : h \in 1 .. j
    BY <2>3, <2>4, <2>7, <2>15, <2>16, SMT DEF AheadAt
  <2>18. AheadAt(w, i)
    BY <1>2, <2>5, <2>15, <2>17 DEF AheadAt
  <2> QED
    BY <2>18 DEF Ahead
<1> QED
  BY <1>6, <1>7

(* A way that leads on from the innermost open call by the member there.   *)
AtTop(w) ==
    /\ Len(stack) <= Len(w)
    /\ \A i \in 1 .. Len(stack) - 1 : w[i] = stack[i].next - 1
    /\ w[Len(stack)] = Top.next

(* When that member has been up, all other ways are ahead that were.       *)
LEMMA Onward ==
    ASSUME Typed, NEW n \in Nat \ {0}, n = Len(stack), NEW w, Ahead(w),
           NEW m \in Nat, m = Len(w), \A i \in 1 .. m : w[i] \in Nat,
           NEW n2 \in Nat, n2 = Len(stack'), n <= n2,
           \A i \in 1 .. n - 1 : stack'[i] = stack[i],
           stack'[n].next = stack[n].next + 1
    PROVE  Ahead(w)' \/ AtTop(w)
<1>1. PICK k \in 1 .. n : AheadAt(w, k)
  BY DEF Ahead
<1>2. /\ k <= m /\ k \in 1 .. m /\ k \in 1 .. n2 /\ k \in Nat
      /\ \A i \in 1 .. k - 1 : i \in 1 .. n - 1 /\ w[i] = stack[i].next - 1
  <2>1. k <= m
    BY <1>1 DEF AheadAt
  <2>2. /\ k \in 1 .. m /\ k \in 1 .. n2 /\ k \in Nat
        /\ \A i \in 1 .. k - 1 : i \in 1 .. n - 1
    BY <2>1, SMT
  <2> QED
    BY <1>1, <2>1, <2>2 DEF AheadAt
<1>3. w[k] >= stack[k].next
  BY <1>1 DEF AheadAt
<1>4. \A i \in 1 .. k - 1 : w[i] = stack'[i].next - 1
  BY <1>2
<1>5. CASE k # n
  <2>1. k \in 1 .. n - 1
    BY <1>5, SMT
  <2>2. w[k] >= stack'[k].next
    BY <1>3, <2>1
  <2>3. AheadAt(w, k)'
    BY <1>2, <1>4, <2>2 DEF AheadAt
  <2> QED
    BY <1>2, <2>3 DEF Ahead
<1>6. CASE k = n /\ w[n] = stack[n].next
  BY <1>2, <1>6 DEF AtTop, Top
<1>7. CASE k = n /\ w[n] # stack[n].next
  <2>1. PICK x \in Nat : x = stack[n].next
    <3>1. stack[n] \in Frame
      <4>1. n \in 1 .. n
        BY SMT
      <4> QED
        BY <4>1, ElementOfSeq DEF Typed
    <3> QED
      BY <3>1 DEF Frame
  <2>2. PICK y \in Nat : y = w[n]
    BY <1>2, <1>7
  <2>3. y >= x + 1
    BY <1>3, <1>7, <2>1, <2>2, SMT
  <2>4. w[k] >= stack'[k].next
    BY <1>7, <2>1, <2>2, <2>3
  <2>5. AheadAt(w, k)'
    BY <1>2, <1>4, <2>4 DEF AheadAt
  <2> QED
    BY <1>2, <2>5 DEF Ahead
<1> QED
  BY <1>5, <1>6, <1>7

-----------------------------------------------------------------------------
LEMMA UpIs ==
    ASSUME Typed, NEW n \in Nat \ {0}, n = Len(stack)
    PROVE  /\ Up \in Seq(Frame) /\ Len(Up) = n /\ DOMAIN Up = 1 .. n
           /\ \A i \in 1 .. n - 1 : Up[i] = stack[i]
           /\ \A i \in 1 .. n : Up[i].object = stack[i].object
           /\ Up[n].next = stack[n].next + 1
<1>1. stack \in [1 .. n -> Frame] /\ n \in 1 .. n
  BY LenProperties, SMT DEF Typed
<1>2. PICK f : f = [object |-> stack[n].object, next |-> stack[n].next + 1]
  OBVIOUS
<1>3. f \in Frame /\ stack[n] \in Frame
  BY <1>1, <1>2 DEF Frame
<1>4. [stack[n] EXCEPT !.next = stack[n].next + 1] = f
  BY <1>2, <1>3 DEF Frame
<1>5. Up = [stack EXCEPT ![n] = f]
  BY <1>4 DEF Up
<1>6. Up \in [1 .. n -> Frame] /\ Up[n] = f /\ \A i \in 1 .. n : i # n => Up[i] = stack[i]
  BY <1>1, <1>3, <1>5
<1>7. Up \in Seq(Frame)
  BY <1>6, SeqDef
<1>8. DOMAIN Up = 1 .. n /\ Len(Up) \in Nat /\ DOMAIN Up = 1 .. Len(Up)
  BY <1>6, <1>7, LenProperties
<1>9. Len(Up) = n
  BY <1>8, SMT
<1>10. \A i \in 1 .. n - 1 : i \in 1 .. n /\ i # n
  BY SMT
<1> QED
  <2>1. Up[n].next = stack[n].next + 1 /\ Up[n].object = stack[n].object
    BY <1>2, <1>6
  <2>2. \A i \in 1 .. n : Up[i].object = stack[i].object
    BY <1>6, <2>1
  <2>3. \A i \in 1 .. n - 1 : Up[i] = stack[i]
    BY <1>6, <1>10
  <2> QED
    BY <1>7, <1>8, <1>9, <2>1, <2>2, <2>3

LEMMA Entered ==
    ASSUME Typed, NEW open \in Seq(Frame), NEW n \in Nat, n = Len(open), NEW o \in Object, Enter(o, open)
    PROVE  /\ Typed'
           /\ Len(stack') = n + 1
           /\ \A i \in 1 .. n : stack'[i] = open[i]
           /\ stack'[n + 1].object = o /\ stack'[n + 1].next = 1
           /\ IF Claim = "peer" THEN walked' = walked
              ELSE walked' = walked \union {[i \in 1 .. n |-> stack'[i].next - 1]}
<1>1. PICK f \in Frame : f = [object |-> o, next |-> 1] /\ f.object = o /\ f.next = 1
  <2>1. 1 \in Nat \ {0}
    BY SMT
  <2>2. [object |-> o, next |-> 1] \in Frame
    BY <2>1 DEF Frame
  <2> QED
    BY <2>2
<1>2. /\ stack' = Append(open, f)
      /\ IF Claim = "peer" THEN walked' = walked
         ELSE walked' = walked \union {[i \in DOMAIN open |-> open[i].next - 1]}
  BY <1>1 DEF Enter
<1>3. /\ stack' \in Seq(Frame) /\ Len(stack') = n + 1
      /\ \A i \in 1 .. n : stack'[i] = open[i]
      /\ stack'[n + 1] = f
  <2> HIDE DEF Frame
  <2> QED
    BY <1>2, AppendProperties
<1>4. DOMAIN open = 1 .. n
  BY LenProperties
<1>5. Typed'
  BY <1>3, EnterReads DEF Typed
<1> QED
  BY <1>1, <1>2, <1>3, <1>4, <1>5

LEMMA WalkedStep ==
    ASSUME WalkInv, Claim # "peer", Typed', Path', NEW open \in Seq(Frame), NEW n \in Nat, n = Len(open),
           NEW o \in Object, Enter(o, open)
    PROVE  WalkedRead'
<1>1. PICK v : v = [i \in 1 .. n |-> stack'[i].next - 1]
  OBVIOUS
<1>2. /\ Len(stack') = n + 1 /\ stack'[n + 1].object = o
      /\ walked' = walked \union {v}
  BY <1>1, Entered DEF WalkInv
<1>3. PICK k \in Nat \ {0} : k = n + 1 /\ k - 1 = n
  BY SMT
<1>4. /\ v \in BoundedSeq(1 .. MaxChildren, MAX_SORT_DEPTH - 1) /\ Len(v) = n
      /\ \E at \in Trails(v)' : IsInjective(at) /\ at[n] = o
  <2>1. k = Len(stack') /\ v = [i \in 1 .. k - 1 |-> stack'[i].next - 1]
    BY <1>1, <1>2, <1>3
  <2>2. /\ v \in BoundedSeq(1 .. MaxChildren, MAX_SORT_DEPTH - 1) /\ Len(v) = k - 1
        /\ \E at \in Trails(v)' : IsInjective(at) /\ at[k - 1] = stack'[k].object
    BY <2>1, StackWay
  <2> QED
    BY <1>2, <1>3, <2>2
<1>5. o \in DOMAIN graph' /\ Reads(o) /\ DOMAIN graph \subseteq DOMAIN graph'
  BY EnterReads DEF WalkInv
<1>6. ASSUME NEW w \in walked
      PROVE  /\ w \in BoundedSeq(1 .. MaxChildren, MAX_SORT_DEPTH - 1)
             /\ \E at \in Trails(w)' : IsInjective(at) /\ at[Len(w)] \in DOMAIN graph'
  <2>1. /\ w \in BoundedSeq(1 .. MaxChildren, MAX_SORT_DEPTH - 1)
        /\ \E at \in Trails(w) : IsInjective(at) /\ at[Len(w)] \in DOMAIN graph
    BY DEF WalkInv, WalkedRead
  <2>2. PICK at \in Trails(w) : IsInjective(at) /\ at[Len(w)] \in DOMAIN graph
    BY <2>1
  <2>3. at \in Trails(w)'
    BY <1>5, TrailsStay
  <2> QED
    BY <1>5, <2>1, <2>2, <2>3
<1> QED
  BY <1>2, <1>4, <1>5, <1>6 DEF WalkedRead

(* Where a way that takes the member that is up gets to.                   *)
LEMMA AtTopLeads ==
    ASSUME Typed, Path, NEW n \in Nat \ {0}, n = Len(stack), NEW w, NEW at \in Trails(w),
           w \in BoundedSeq(1 .. MaxChildren, MAX_SORT_DEPTH - 1), IsInjective(at), AtTop(w)
    PROVE  /\ n < MAX_SORT_DEPTH
           /\ at[n] \in Object /\ at[n] \notin seen
           /\ Top.next \in DOMAIN graph[Top.object] /\ at[n] = graph[Top.object][Top.next]
<1>1. PICK m \in 0 .. MAX_SORT_DEPTH - 1 : w \in [1 .. m -> 1 .. MaxChildren] /\ Len(w) = m
  BY WayIs
<1>2. n <= m
  BY <1>1 DEF AtTop
<1>3. /\ n < MAX_SORT_DEPTH /\ n \in 1 .. m /\ n \in 0 .. m /\ n \in 1 .. n /\ n <= m + 1 /\ m \in Nat
      /\ \A i \in 1 .. n : i - 1 \in 0 .. m /\ i - 1 # n
  BY <1>2, RedactorAssumption, SMT
<1>4. /\ at \in [0 .. m -> Object]
      /\ \A k \in 1 .. m : at[k] = Follow(at[k - 1], w[k])
  BY <1>1 DEF Trails
<1>5. \A i \in 1 .. n : at[i - 1] = stack[i].object
  <2>1. \A i \in 1 .. n - 1 : w[i] = stack[i].next - 1
    BY DEF AtTop
  <2>2. n \in Nat /\ n \in 1 .. n /\ m \in Nat /\ m = Len(w) /\ n <= m + 1
    BY <1>1, <1>3
  <2> QED
    <3>1. PICK k \in 1 .. n : k = n
      BY <2>2
    <3>2. \A i \in 1 .. k - 1 : w[i] = stack[i].next - 1
      BY <2>1, <3>1
    <3>3. k <= m + 1
      BY <2>2, <3>1
    <3>4. \A i \in 1 .. k : at[i - 1] = stack[i].object
      <4>1. GoesDown(w, k)
        BY <2>2, <3>2, <3>3 DEF GoesDown
      <4>2. Meets(at, k)
        BY <4>1, OnStack
      <4> QED
        BY <4>2 DEF Meets
    <3> QED
      BY <3>1, <3>4
<1>6. at[n - 1] = Top.object /\ w[n] = Top.next
  BY <1>3, <1>5 DEF AtTop, Top
<1>7. at[n] \in Object /\ at[n] # Leaf
  BY <1>3, <1>4, RedactorAssumption
<1>8. at[n] = Follow(Top.object, Top.next)
  BY <1>3, <1>4, <1>6
<1>9. at[n] \notin seen
  <2> SUFFICES ASSUME NEW i \in 1 .. n, at[n] = stack[i].object PROVE FALSE
    BY DEF Path
  <2>1. at[n] = at[i - 1]
    BY <1>5
  <2> QED
    BY <1>3, <1>4, <2>1 DEF IsInjective
<1> QED
  BY <1>3, <1>7, <1>8, <1>9 DEF Follow

LEMMA WayNumbers ==
    \A w : w \in BoundedSeq(1 .. MaxChildren, MAX_SORT_DEPTH - 1) =>
        Len(w) \in Nat /\ \A i \in 1 .. Len(w) : w[i] \in Nat /\ w[i] >= 1
<1> SUFFICES ASSUME NEW w, w \in BoundedSeq(1 .. MaxChildren, MAX_SORT_DEPTH - 1)
             PROVE  Len(w) \in Nat /\ \A i \in 1 .. Len(w) : w[i] \in Nat /\ w[i] >= 1
  OBVIOUS
<1>1. PICK m \in 0 .. MAX_SORT_DEPTH - 1 : w \in [1 .. m -> 1 .. MaxChildren] /\ Len(w) = m
  BY WayIs
<1>2. m \in Nat /\ \A x \in 1 .. MaxChildren : x \in Nat /\ x >= 1
  BY SMT
<1> QED
  BY <1>1, <1>2

LEMMA WalkStep == ASSUME WalkInv, Claim # "peer", Walk PROVE WalkInv'
<1>1. PICK n \in Nat : n = 0
  BY SMT
<1>2. /\ stack = <<>> /\ stack \in Seq(Frame) /\ Len(stack) = n /\ Root \in Object
      /\ result = "pending" /\ result' = result /\ walked = {} /\ Enter(Root, stack)
  <2>1. stack = <<>> /\ result = "pending" /\ result' = result /\ Enter(Root, stack)
    BY DEF Walk
  <2>2. stack \in Seq(Frame) /\ walked = {}
    BY <2>1 DEF WalkInv, Phases, Typed
  <2>3. Len(stack) = n
    BY <1>1, <2>1, SMT
  <2> QED
    BY <2>1, <2>2, <2>3, RedactorAssumption
<1>3. 1 .. n = {} /\ n + 1 = 1 /\ 1 .. 1 = {1} /\ 1 .. 1 - 1 = {} /\ 1 \in Nat
  BY <1>1, SMT
<1>4. /\ Typed' /\ Len(stack') = 1 /\ stack'[1].object = Root /\ stack'[1].next = 1
      /\ walked' = walked \union {[i \in 1 .. n |-> stack'[i].next - 1]}
  <2>1. Typed /\ Claim # "peer"
    BY DEF WalkInv
  <2>2. PICK open \in Seq(Frame) : open = stack /\ n = Len(open) /\ Enter(Root, open)
    BY <1>2
  <2>3. Root \in Object /\ n \in Nat
    BY <1>2
  <2>4. /\ Typed' /\ Len(stack') = n + 1
        /\ stack'[n + 1].object = Root /\ stack'[n + 1].next = 1
        /\ walked' = walked \union {[i \in 1 .. n |-> stack'[i].next - 1]}
    BY ONLY <2>1, <2>2, <2>3, Entered
  <2> QED
    BY <1>3, <2>4
<1>5. Root \in DOMAIN graph' /\ stack' # <<>>
  <2>1. Root \in DOMAIN graph'
    BY <1>2, EnterReads DEF WalkInv
  <2>2. stack' # <<>>
    BY <1>1, <1>2, <1>4, SMT
  <2> QED
    BY <2>1, <2>2
<1>6. Path'
  <2>1. seen = {}
    BY <1>2, <1>3 DEF WalkInv, Path
  <2>2. seen' = {Root}
    BY <1>2, <2>1 DEF Enter
  <2>3. 1 <= MAX_SORT_DEPTH
    BY RedactorAssumption, SMT
  <2> QED
    BY <1>3, <1>4, <1>5, <2>2, <2>3 DEF Path
<1>7. WalkedRead'
  BY <1>2, <1>4, <1>6, WalkedStep
<1>8. NothingMissed'
  <2> SUFFICES ASSUME NEW w \in SimpleWays' PROVE w \in walked' \/ Ahead(w)'
    BY DEF NothingMissed
  <2>1. PICK m \in 0 .. MAX_SORT_DEPTH - 1 : w \in [1 .. m -> 1 .. MaxChildren] /\ Len(w) = m
    BY WayIs DEF SimpleWays
  <2>2. CASE m = 0
    <3>1. w = [i \in 1 .. n |-> stack'[i].next - 1]
      BY <1>1, <1>3, <2>1, <2>2
    <3> QED
      BY <1>4, <3>1
  <2>3. CASE m # 0
    <3>1. 1 <= m /\ 1 \in 1 .. m
      BY <2>3, SMT
    <3>2. w[1] >= 1
      <4>1. w[1] \in 1 .. MaxChildren
        BY <2>1, <3>1
      <4> QED
        BY <4>1, SMT
    <3>3. AheadAt(w, 1)'
      BY <1>3, <1>4, <2>1, <3>1, <3>2 DEF AheadAt
    <3> QED
      BY <1>3, <1>4, <3>3 DEF Ahead
  <2> QED
    BY <2>2, <2>3
<1>9. Phases'
  BY <1>2, <1>4, <1>5 DEF Phases
<1> QED
  BY <1>4, <1>6, <1>7, <1>8, <1>9 DEF WalkInv

LEMMA MemberStep == ASSUME WalkInv, Claim # "peer", Member PROVE WalkInv'
<1>1. Typed /\ Path /\ stack \in Seq(Frame) /\ stack # <<>>
  BY DEF WalkInv, Typed, Member
<1>2. PICK n \in Nat \ {0} : n = Len(stack)
  BY <1>1, LenProperties, EmptySeq
<1>3. /\ n \in 1 .. n /\ n \in Nat /\ Top = stack[n]
      /\ \A i \in 1 .. n - 1 : i \in 1 .. n /\ i + 1 \in 1 .. n
  BY <1>2, SMT DEF Top
<1>4. /\ Up \in Seq(Frame) /\ Len(Up) = n
      /\ \A i \in 1 .. n - 1 : Up[i] = stack[i]
      /\ \A i \in 1 .. n : Up[i].object = stack[i].object
      /\ Up[n].next = stack[n].next + 1
  BY <1>1, <1>2, UpIs
<1>5. PICK g, x : /\ g = graph[stack[n].object] /\ x = stack[n].next
                  /\ x \in DOMAIN g /\ x \in Nat
                  /\ g[x] \in Object \union {Leaf}
  <2>1. stack[n] \in Frame
    BY <1>1, <1>2, <1>3, ElementOfSeq
  <2>2. stack[n].object \in DOMAIN graph
    BY <1>1, <1>2, <1>3 DEF Path
  <2>3. PICK c \in 0 .. MaxChildren : graph[stack[n].object] \in [1 .. c -> Object \union {Leaf}]
    BY <1>1, <2>2 DEF Typed
  <2>4. PICK g : g = graph[stack[n].object] /\ g \in [1 .. c -> Object \union {Leaf}] /\ Len(g) = c
    <3>1. c \in Nat
      BY SMT
    <3>2. graph[stack[n].object] \in Seq(Object \union {Leaf})
      BY <2>3, <3>1, SeqDef
    <3>3. Len(graph[stack[n].object]) \in Nat /\ 1 .. Len(graph[stack[n].object]) = 1 .. c
      BY <2>3, <3>2, LenProperties
    <3>4. Len(graph[stack[n].object]) = c
      BY <3>1, <3>3, SMT
    <3> QED
      BY <2>3, <3>4
  <2>5. PICK x \in Nat \ {0} : x = stack[n].next
    BY <2>1 DEF Frame
  <2>6. x <= c
    BY <1>3, <2>4, <2>5 DEF Member
  <2>7. x \in 1 .. c
    BY <2>5, <2>6, SMT
  <2> QED
    BY <2>4, <2>5, <2>7
<1>6. result' = result /\ result = "pending" /\ walked # {}
  BY <1>1 DEF Member, WalkInv, Phases
<1>7. \A w \in SimpleWays : w \in walked \/ Ahead(w)
  BY <1>6 DEF WalkInv, NothingMissed
<1>8. CASE (g[x] = Leaf \/ Cut(g[x])) /\ stack' = Up /\ UNCHANGED <<graph, seen, walked>>
  <2>1. Len(stack') = n /\ \A i \in 1 .. n : stack'[i].object = stack[i].object
    BY <1>4, <1>8
  <2>2. Typed' /\ WalkedRead'
    BY <1>1, <1>4, <1>8 DEF WalkInv, Typed, WalkedRead, BoundedSeq, SeqOf, Trails, Follow
  <2>3. Path'
    <3>1. \A i \in 1 .. n - 1 : stack'[i] = stack[i]
      BY <1>4, <1>8
    <3>2. stack' # <<>> /\ stack'[1].object = Root
      <4>1. 1 \in 1 .. n /\ Len(<<>>) = 0
        BY SMT
      <4> QED
        BY <1>1, <1>2, <2>1, <4>1 DEF Path
    <3>3. \A i \in 1 .. n - 1 :
            /\ stack'[i].next - 1 \in DOMAIN graph[stack'[i].object]
            /\ graph[stack'[i].object][stack'[i].next - 1] = stack'[i + 1].object
      BY <1>1, <1>2, <1>3, <2>1, <3>1 DEF Path
    <3>4. seen' = {stack'[i].object : i \in 1 .. n}
      <4>1. seen = {stack[i].object : i \in 1 .. n} /\ seen' = seen
        BY <1>1, <1>2, <1>8 DEF Path
      <4> QED
        BY <2>1, <4>1
    <3>5. /\ n <= MAX_SORT_DEPTH
          /\ \A i \in 1 .. n : stack'[i].object \in DOMAIN graph
          /\ \A i, j \in 1 .. n : stack'[i].object = stack'[j].object => i = j
      BY <1>1, <1>2, <2>1 DEF Path
    <3> QED
      BY <1>8, <2>1, <3>2, <3>3, <3>4, <3>5 DEF Path
  <2>4. ASSUME NEW w \in SimpleWays, AtTop(w) PROVE FALSE
    <3>1. PICK at \in Trails(w) : IsInjective(at) /\ w \in BoundedSeq(1 .. MaxChildren, MAX_SORT_DEPTH - 1)
      BY DEF SimpleWays
    <3>2. n < MAX_SORT_DEPTH /\ at[n] \in Object /\ at[n] \notin seen /\ at[n] = g[x]
      BY <1>1, <1>2, <1>3, <1>5, <2>4, <3>1, AtTopLeads
    <3>3. ~(n >= MAX_SORT_DEPTH)
      BY <3>2, RedactorAssumption, SMT
    <3> QED
      BY <1>2, <1>8, <3>2, <3>3, RedactorAssumption DEF Cut
  <2>5. ASSUME NEW w \in SimpleWays PROVE w \in walked \/ Ahead(w)'
    <3>1. Len(w) \in Nat /\ \A i \in 1 .. Len(w) : w[i] \in Nat
      BY WayNumbers DEF SimpleWays
    <3>2. n <= n /\ stack'[n].next = stack[n].next + 1 /\ \A i \in 1 .. n - 1 : stack'[i] = stack[i]
      BY <1>3, <1>4, <1>8
    <3>3. Ahead(w) => Ahead(w)' \/ AtTop(w)
      BY <1>1, <1>2, <1>3, <2>1, <3>1, <3>2, Onward
    <3> QED
      BY <1>7, <2>4, <3>3
  <2>6. NothingMissed'
    <3>1. SimpleWays' = SimpleWays
      BY <1>8 DEF SimpleWays, Trails, Follow
    <3> QED
      BY <1>8, <2>5, <3>1 DEF NothingMissed
  <2>7. Phases'
    <3>1. stack' # <<>>
      <4>1. Len(<<>>) = 0 /\ n # 0
        BY SMT
      <4> QED
        BY <2>1, <4>1
    <3> QED
      BY <1>6, <1>8, <3>1 DEF Phases
  <2> QED
    BY <2>2, <2>3, <2>6, <2>7 DEF WalkInv
<1>9. CASE g[x] # Leaf /\ ~Cut(g[x]) /\ Enter(g[x], Up)
  <2>1. PICK o \in Object : o = g[x] /\ o \notin seen /\ Enter(o, Up)
    BY <1>5, <1>9 DEF Cut
  <2>2. n < MAX_SORT_DEPTH
    <3>1. ~(n >= MAX_SORT_DEPTH)
      BY <1>2, <1>9 DEF Cut
    <3> QED
      BY <3>1, RedactorAssumption, SMT
  <2>3. PICK n2 \in Nat \ {0} : n2 = n + 1 /\ n2 - 1 = n /\ n2 <= MAX_SORT_DEPTH /\ n <= n2 /\ n2 # n
                                /\ 1 .. n2 = (1 .. n) \union {n2} /\ n2 \notin 1 .. n /\ n2 \in 1 .. n2
                                /\ 1 .. n = (1 .. n - 1) \union {n}
                                /\ \A i \in 1 .. n - 1 : i + 1 \in 1 .. n
    BY <2>2, RedactorAssumption, SMT
  <2>4. /\ Typed' /\ Len(stack') = n2
        /\ \A i \in 1 .. n : stack'[i] = Up[i]
        /\ stack'[n2].object = o /\ stack'[n2].next = 1
        /\ walked' = walked \union {[i \in 1 .. n |-> stack'[i].next - 1]}
    BY <1>1, <1>3, <1>4, <2>1, <2>3, Entered
  <2>5. /\ \A i \in 1 .. n - 1 : stack'[i] = stack[i]
        /\ \A i \in 1 .. n : stack'[i].object = stack[i].object
        /\ stack'[n].next = stack[n].next + 1
    BY <1>3, <1>4, <2>4
  <2>6. /\ Reads(o) /\ o \in DOMAIN graph' /\ DOMAIN graph \subseteq DOMAIN graph'
        /\ \A y \in DOMAIN graph : graph'[y] = graph[y]
    BY <1>1, <2>1, EnterReads
  <2>7. stack' # <<>>
    <3>1. Len(<<>>) = 0
      BY SMT
    <3> QED
      BY <2>3, <2>4, <3>1
  <2>8. Path'
    <3>1. stack'[1].object = Root
      <4>1. 1 \in 1 .. n
        BY SMT
      <4> QED
        BY <1>1, <2>5, <4>1 DEF Path
    <3>2. \A i \in 1 .. n : stack[i].object \in DOMAIN graph
      BY <1>1, <1>2 DEF Path
    <3>3. \A i \in 1 .. n2 : stack'[i].object \in DOMAIN graph'
      BY <2>3, <2>4, <2>5, <2>6, <3>2
    <3>4. \A i \in 1 .. n - 1 :
            /\ stack'[i].next - 1 \in DOMAIN graph'[stack'[i].object]
            /\ graph'[stack'[i].object][stack'[i].next - 1] = stack'[i + 1].object
      <4> SUFFICES ASSUME NEW i \in 1 .. n - 1
                   PROVE  /\ stack'[i].next - 1 \in DOMAIN graph'[stack'[i].object]
                          /\ graph'[stack'[i].object][stack'[i].next - 1] = stack'[i + 1].object
        OBVIOUS
      <4>1. /\ stack[i].next - 1 \in DOMAIN graph[stack[i].object]
            /\ graph[stack[i].object][stack[i].next - 1] = stack[i + 1].object
        BY <1>1, <1>2 DEF Path
      <4>2. graph'[stack[i].object] = graph[stack[i].object]
        BY <1>3, <2>6, <3>2
      <4> QED
        BY <1>3, <2>5, <4>1, <4>2
    <3>5. /\ stack'[n].next - 1 \in DOMAIN graph'[stack'[n].object]
          /\ graph'[stack'[n].object][stack'[n].next - 1] = stack'[n + 1].object
      <4>1. stack'[n].object = stack[n].object /\ graph'[stack[n].object] = g
        BY <1>3, <1>5, <2>5, <2>6, <3>2
      <4>2. (x + 1) - 1 = x
        BY <1>5, SMT
      <4>3. stack'[n].next - 1 = x
        BY <1>5, <2>5, <4>2
      <4> QED
        BY <1>5, <2>1, <2>3, <2>4, <4>1, <4>3
    <3>6. seen = {stack[i].object : i \in 1 .. n}
      BY <1>1, <1>2 DEF Path
    <3>7. \A i, j \in 1 .. n2 : stack'[i].object = stack'[j].object => i = j
      <4>1. \A i, j \in 1 .. n : stack[i].object = stack[j].object => i = j
        BY <1>1, <1>2 DEF Path
      <4>2. \A i \in 1 .. n : stack[i].object # o
        BY <2>1, <3>6
      <4> QED
        BY <2>3, <2>4, <2>5, <4>1, <4>2
    <3>8. seen' = {stack'[i].object : i \in 1 .. n2}
      <4>1. seen' = seen \union {o}
        BY <2>1 DEF Enter
      <4> QED
        BY <2>3, <2>4, <2>5, <3>6, <4>1
    <3> QED
      BY <2>3, <2>4, <3>1, <3>3, <3>4, <3>5, <3>7, <3>8 DEF Path
  <2>9. WalkedRead'
    BY <1>3, <1>4, <2>1, <2>4, <2>8, WalkedStep
  <2>10. ASSUME NEW w \in SimpleWays' PROVE w \in walked' \/ Ahead(w)'
    <3>1. PICK m \in 0 .. MAX_SORT_DEPTH - 1 : w \in [1 .. m -> 1 .. MaxChildren] /\ Len(w) = m
      BY WayIs DEF SimpleWays
    <3>2. m \in Nat /\ \A i \in 1 .. m : w[i] \in Nat /\ w[i] >= 1
      <4>1. m \in Nat /\ \A y \in 1 .. MaxChildren : y \in Nat /\ y >= 1
        BY SMT
      <4> QED
        BY <3>1, <4>1
    <3>3. w \in walked \/ Ahead(w)
      BY <1>6, <2>6, StillMissed
    <3>4. CASE w \in walked
      BY <2>4, <3>4
    <3>5. CASE Ahead(w)
      <4>1. Ahead(w)' \/ AtTop(w)
        BY <1>1, <1>2, <2>3, <2>4, <2>5, <3>1, <3>2, <3>5, Onward
      <4>2. CASE AtTop(w)
        <5>1. n <= m /\ w[n] = x /\ \A i \in 1 .. n - 1 : w[i] = stack[i].next - 1
          BY <1>2, <1>3, <1>5, <3>1, <4>2 DEF AtTop
        <5>2. \A i \in 1 .. n : w[i] = stack'[i].next - 1
          <6>1. (x + 1) - 1 = x
            BY <1>5, SMT
          <6>2. w[n] = stack'[n].next - 1
            BY <1>5, <2>5, <5>1, <6>1
          <6> QED
            BY <2>3, <2>5, <5>1, <6>2
        <5>3. CASE m = n
          <6>1. w = [i \in 1 .. n |-> stack'[i].next - 1]
            BY <3>1, <5>2, <5>3
          <6> QED
            BY <2>4, <6>1
        <5>4. CASE m # n
          <6>1. n2 <= m /\ n2 \in 1 .. m
            BY <2>3, <3>2, <5>1, <5>4, SMT
          <6>2. AheadAt(w, n2)'
            BY <2>3, <2>4, <3>1, <3>2, <5>2, <6>1 DEF AheadAt
          <6> QED
            BY <2>3, <2>4, <6>2 DEF Ahead
        <5> QED
          BY <5>3, <5>4
      <4> QED
        BY <4>1, <4>2
    <3> QED
      BY <3>3, <3>4, <3>5
  <2>11. NothingMissed' /\ Phases'
    BY <1>6, <2>4, <2>7, <2>10 DEF NothingMissed, Phases
  <2> QED
    BY <2>4, <2>8, <2>9, <2>11 DEF WalkInv
<1> QED
  <2>1. g[x] = graph[Top.object][Top.next]
    BY <1>3, <1>5
  <2> QED
    BY <1>8, <1>9, <2>1 DEF Member

LEMMA FrontIs ==
    ASSUME stack \in Seq(Frame), NEW n \in Nat \ {0}, n = Len(stack), NEW l \in Nat, l = n - 1
    PROVE  /\ Front(stack) \in Seq(Frame) /\ Len(Front(stack)) = l
           /\ \A i \in 1 .. l : Front(stack)[i] = stack[i]
<1>1. Front(stack) = SubSeq(stack, 1, l)
  BY DEF Front
<1>2. l <= n /\ \A i \in 1 .. l : i \in 1 .. n
  BY SMT
<1>3. SubSeq(stack, 1, l) = [i \in 1 .. l |-> stack[i]]
  BY <1>2, SMT
<1>4. stack \in [1 .. n -> Frame]
  BY LenProperties
<1>5. SubSeq(stack, 1, l) \in [1 .. l -> Frame]
  BY <1>2, <1>3, <1>4
<1>6. SubSeq(stack, 1, l) \in Seq(Frame)
  BY <1>5, SeqDef
<1>7. Len(SubSeq(stack, 1, l)) \in Nat /\ 1 .. Len(SubSeq(stack, 1, l)) = 1 .. l
  BY <1>5, <1>6, LenProperties
<1>8. Len(SubSeq(stack, 1, l)) = l
  BY <1>7, SMT
<1> QED
  BY <1>1, <1>3, <1>6, <1>8

LEMMA LeaveStep == ASSUME WalkInv, Leave PROVE WalkInv'
<1>1. Typed /\ Path /\ stack \in Seq(Frame) /\ stack # <<>>
  BY DEF WalkInv, Typed, Leave
<1>2. PICK n \in Nat \ {0} : n = Len(stack)
  BY <1>1, LenProperties, EmptySeq
<1>3. PICK l \in Nat : l = n - 1
  BY SMT
<1>4. /\ n \in 1 .. n /\ n \in Nat /\ Top = stack[n] /\ l <= n
      /\ 1 .. n = (1 .. l) \union {n} /\ n \notin 1 .. l
      /\ \A i \in 1 .. l : i \in 1 .. n
      /\ \A i \in 1 .. l - 1 : i \in 1 .. n - 1 /\ i \in 1 .. l /\ i + 1 \in 1 .. l
  BY <1>2, <1>3, SMT DEF Top
<1>5. stack' \in Seq(Frame) /\ Len(stack') = l /\ \A i \in 1 .. l : stack'[i] = stack[i]
  BY <1>1, <1>2, <1>3, FrontIs DEF Leave
<1>6. UNCHANGED <<graph, walked>> /\ SimpleWays' = SimpleWays
  <2>1. UNCHANGED <<graph, walked>>
    BY DEF Leave
  <2> QED
    BY <2>1 DEF SimpleWays, Trails, Follow
<1>7. Typed' /\ WalkedRead'
  BY <1>1, <1>5, <1>6 DEF WalkInv, Typed, WalkedRead, BoundedSeq, SeqOf, Trails, Follow
<1>8. Path'
  <2>1. /\ n <= MAX_SORT_DEPTH /\ stack[1].object = Root
        /\ \A i \in 1 .. n : stack[i].object \in DOMAIN graph
        /\ \A i \in 1 .. n - 1 :
              /\ stack[i].next - 1 \in DOMAIN graph[stack[i].object]
              /\ graph[stack[i].object][stack[i].next - 1] = stack[i + 1].object
        /\ \A i, j \in 1 .. n : stack[i].object = stack[j].object => i = j
        /\ seen = {stack[i].object : i \in 1 .. n}
    BY <1>1, <1>2 DEF Path
  <2>2. l <= MAX_SORT_DEPTH
    BY <1>3, <2>1, RedactorAssumption, SMT
  <2>3. stack' # <<>> => stack'[1].object = Root
    <3> SUFFICES ASSUME stack' # <<>> PROVE stack'[1].object = Root
      OBVIOUS
    <3>1. l # 0
      BY <1>5, EmptySeq
    <3>2. 1 \in 1 .. l
      BY <3>1, SMT
    <3> QED
      BY <1>5, <2>1, <3>2
  <2>4. \A i \in 1 .. l : stack'[i].object \in DOMAIN graph'
    BY <1>4, <1>5, <1>6, <2>1
  <2>5. \A i \in 1 .. l - 1 :
          /\ stack'[i].next - 1 \in DOMAIN graph'[stack'[i].object]
          /\ graph'[stack'[i].object][stack'[i].next - 1] = stack'[i + 1].object
    BY <1>4, <1>5, <1>6, <2>1
  <2>6. \A i, j \in 1 .. l : stack'[i].object = stack'[j].object => i = j
    BY <1>4, <1>5, <2>1
  <2>7. seen' = {stack'[i].object : i \in 1 .. l}
    <3>1. seen' = seen \ {stack[n].object}
      BY <1>4 DEF Leave, Unseen
    <3>2. \A i \in 1 .. l : i \in 1 .. n /\ stack[i].object # stack[n].object
      BY <1>4, <2>1
    <3>3. seen = {stack[i].object : i \in 1 .. n}
      BY <2>1
    <3>4. seen = {stack[i].object : i \in 1 .. l} \union {stack[n].object}
      BY ONLY <1>4, <3>3
    <3>5. seen' = {stack[i].object : i \in 1 .. l}
      BY ONLY <3>1, <3>2, <3>4
    <3>6. \A i \in 1 .. l : stack'[i].object = stack[i].object
      BY <1>5
    <3> QED
      BY ONLY <3>5, <3>6
  <2> QED
    BY <1>5, <2>2, <2>3, <2>4, <2>5, <2>6, <2>7 DEF Path
<1>9. ASSUME NEW w \in SimpleWays, Ahead(w) PROVE Ahead(w)'
  <2>1. PICK k \in 1 .. n : AheadAt(w, k)
    BY <1>2, <1>9 DEF Ahead
  <2>2. /\ k <= Len(w) /\ \A i \in 1 .. k - 1 : w[i] = stack[i].next - 1
        /\ w[k] >= stack[k].next
    BY <2>1 DEF AheadAt
  <2>3. CASE k = n
    <3>1. PICK at \in Trails(w) : w \in BoundedSeq(1 .. MaxChildren, MAX_SORT_DEPTH - 1)
      BY DEF SimpleWays
    <3>2. PICK m \in 0 .. MAX_SORT_DEPTH - 1 : w \in [1 .. m -> 1 .. MaxChildren] /\ Len(w) = m
      BY <3>1, WayIs
    <3>3. n <= m /\ n \in 1 .. m /\ m \in Nat /\ n <= m + 1
      <4>1. n <= m
        BY <2>2, <2>3, <3>2
      <4> QED
        BY <4>1, SMT
    <3>4. \A i \in 1 .. k : at[i - 1] = stack[i].object
      <4>1. GoesDown(w, k)
        <5>1. m = Len(w) /\ k <= m + 1 /\ m \in Nat
          BY <2>3, <3>2, <3>3
        <5>2. n = Len(stack) /\ n \in Nat /\ k \in 1 .. n
          BY <1>1, <1>2, <1>4
        <5> QED
          BY <2>2, <5>1, <5>2 DEF GoesDown
      <4>2. Path /\ at \in Trails(w)
        BY <1>1, <1>2, <1>4, <3>1
      <4>3. Meets(at, k)
        BY <4>1, <4>2, OnStack
      <4> QED
        BY <4>3 DEF Meets
    <3>5. at[n] = Follow(stack[n].object, w[n]) /\ at[n] # Leaf
      <4>1. n \in 0 .. m
        BY <3>3, SMT
      <4>2. /\ at \in [0 .. m -> Object]
            /\ \A i \in 1 .. m : at[i] = Follow(at[i - 1], w[i])
        BY <3>2 DEF Trails
      <4> QED
        BY <1>4, <2>3, <3>3, <3>4, <4>1, <4>2, RedactorAssumption
    <3>6. w[n] \in DOMAIN graph[stack[n].object] /\ stack[n].object \in DOMAIN graph
      BY <3>5 DEF Follow
    <3>7. PICK c \in 0 .. MaxChildren : graph[stack[n].object] \in [1 .. c -> Object \union {Leaf}]
      BY <1>1, <3>6 DEF Typed
    <3>8. Len(graph[stack[n].object]) = c /\ c \in Nat
      <4>1. c \in Nat
        BY SMT
      <4>2. graph[stack[n].object] \in Seq(Object \union {Leaf})
        BY <3>7, <4>1, SeqDef
      <4>3. Len(graph[stack[n].object]) \in Nat /\ 1 .. Len(graph[stack[n].object]) = 1 .. c
        BY <3>7, <4>2, LenProperties
      <4>4. Len(graph[stack[n].object]) = c
        BY <4>1, <4>3, SMT
      <4> QED
        BY <4>1, <4>4
    <3>9. PICK x \in Nat : x = stack[n].next
      <4>1. stack[n] \in Frame
        BY <1>1, <1>2, <1>4, ElementOfSeq
      <4> QED
        BY <4>1 DEF Frame
    <3>10. PICK y \in 1 .. c : y = w[n]
      BY <3>6, <3>7
    <3>11. x > c
      BY <1>4, <3>8, <3>9 DEF Leave
    <3>12. y >= x
      BY <2>2, <2>3, <3>9, <3>10
    <3> QED
      BY <3>8, <3>11, <3>12, SMT
  <2>4. CASE k # n
    <3>1. k \in 1 .. l /\ \A i \in 1 .. k - 1 : i \in 1 .. l
      BY <1>3, <2>4, SMT
    <3>2. AheadAt(w, k)'
      BY <1>5, <2>2, <3>1 DEF AheadAt
    <3> QED
      BY <1>5, <3>1, <3>2 DEF Ahead
  <2> QED
    BY <2>3, <2>4
<1>10. result = "pending" /\ walked # {}
  BY <1>1 DEF WalkInv, Phases
<1>11. NothingMissed'
  BY <1>6, <1>9, <1>10 DEF WalkInv, NothingMissed
<1>12. Phases'
  <2>1. CASE n = 1
    <3>1. stack' = <<>>
      BY <1>3, <1>5, <2>1, EmptySeq, SMT
    <3>2. result' \in Summaries
      BY <1>2, <2>1 DEF Leave
    <3>3. result' \notin {"pending", "overflow"}
      BY <3>2, RuleIsAResult DEF Summaries
    <3> QED
      BY <3>1, <3>3 DEF Phases
  <2>2. CASE n # 1
    <3>1. stack' # <<>>
      <4>1. l # 0 /\ Len(<<>>) = 0
        BY <1>3, <2>2, SMT
      <4> QED
        BY <1>5, <4>1
    <3>2. result' = result
      BY <1>2, <2>2 DEF Leave
    <3> QED
      BY <1>6, <1>10, <3>1, <3>2 DEF WalkInv, Phases
  <2> QED
    BY <2>1, <2>2
<1> QED
  BY <1>7, <1>8, <1>11, <1>12 DEF WalkInv

LEMMA NothingOpen ==
    ASSUME Typed, WalkedRead, stack' = <<>>, seen' = {}, UNCHANGED <<graph, walked>>
    PROVE  Typed' /\ Path' /\ WalkedRead'
<1>1. Len(stack') = 0 /\ 1 .. 0 = {} /\ 1 .. 0 - 1 = {}
  BY SMT
<1>2. stack' \in Seq(Frame)
  BY EmptySeq
<1>3. Typed'
  BY <1>2 DEF Typed
<1>4. Path'
  <2>1. 0 <= MAX_SORT_DEPTH
    BY RedactorAssumption, SMT
  <2>2. \A i \in 1 .. Len(stack') - 1 : FALSE
    BY <1>1
  <2>3. \A i \in 1 .. Len(stack') : FALSE
    BY <1>1
  <2> QED
    BY <1>1, <2>1, <2>2, <2>3 DEF Path
<1>5. WalkedRead'
  BY DEF WalkedRead, BoundedSeq, SeqOf, Trails, Follow
<1> QED
  BY <1>3, <1>4, <1>5

LEMMA ThrowStep == ASSUME WalkInv, GetterThrows PROVE WalkInv'
<1>1. stack' = <<>> /\ seen' = {} /\ result' = "threw" /\ UNCHANGED <<graph, walked>>
  BY DEF GetterThrows
<1>2. Typed' /\ Path' /\ WalkedRead'
  BY <1>1, NothingOpen DEF WalkInv
<1> QED
  BY <1>1, <1>2 DEF WalkInv, NothingMissed, Phases

(* sortDeep() stops short of the stack's end.                              *)
LEMMA WalkFits == ASSUME WalkInv, Claim # "peer" PROVE ~Overflow
<1>1. Len(stack) <= MAX_SORT_DEPTH /\ Len(stack) \in Nat
  BY LenProperties DEF WalkInv, Typed, Path
<1>2. Len(stack) # StackLimit
  BY <1>1, RedactorAssumption, SMT
<1> QED
  BY <1>2 DEF Overflow

LEMMA RedactStep == ASSUME WalkInv, Redact PROVE WalkInv'
<1>1. stack' = <<>> /\ seen' = {} /\ walked = {} /\ UNCHANGED <<graph, walked>>
  <2>1. stack = <<>> /\ result = "pending" /\ UNCHANGED <<graph, stack, seen, walked>>
    BY DEF Redact
  <2>2. Len(stack) = 0 /\ 1 .. 0 = {}
    BY <2>1, SMT
  <2>3. seen = {}
    BY <2>2 DEF WalkInv, Path
  <2> QED
    BY <2>1, <2>3 DEF WalkInv, Phases
<1>2. Typed' /\ Path' /\ WalkedRead'
  BY <1>1, NothingOpen DEF WalkInv
<1>3. result' # "overflow"
  BY RuleIsAResult DEF Redact
<1> QED
  BY <1>1, <1>2, <1>3 DEF WalkInv, NothingMissed, Phases

LEMMA WalkInvStep == ASSUME WalkInv, Claim # "peer", [RedactNext]_redactVars PROVE WalkInv'
<1>1. CASE UNCHANGED redactVars
  <2>1. Typed' /\ Path'
    <3>1. Typed /\ Path /\ UNCHANGED <<stack, graph, seen>>
      BY <1>1 DEF redactVars, WalkInv
    <3> QED
      BY ONLY <3>1 DEF Typed, Path
  <2>2. WalkedRead'
    BY <1>1 DEF redactVars, WalkInv, WalkedRead, Trails, Follow, BoundedSeq, SeqOf
  <2>3. NothingMissed'
    <3>1. SimpleWays' = SimpleWays
      BY <1>1 DEF redactVars, SimpleWays, Trails, Follow
    <3>2. \A w : Ahead(w)' <=> Ahead(w)
      BY <1>1 DEF redactVars, Ahead, AheadAt
    <3> QED
      BY <1>1, <3>1, <3>2 DEF redactVars, WalkInv, NothingMissed
  <2>4. Phases'
    BY <1>1 DEF redactVars, WalkInv, Phases
  <2> QED
    BY <2>1, <2>2, <2>3, <2>4 DEF WalkInv
<1> QED
  BY <1>1, RedactStep, WalkStep, MemberStep, WalkFits, LeaveStep, ThrowStep DEF RedactNext

-----------------------------------------------------------------------------
(* redactPeerValue(). The member that is up is one of its object's.        *)
LEMMA MemberUp ==
    ASSUME Typed, NEW n \in Nat \ {0}, n = Len(stack), stack[n].object \in DOMAIN graph,
           stack[n].next <= Len(graph[stack[n].object])
    PROVE  \E j \in 1 .. MaxChildren :
              /\ Follow(stack[n].object, j) = graph[stack[n].object][stack[n].next]
              /\ Follow(stack[n].object, j) \in Object \union {Leaf}
<1>1. PICK c \in 0 .. MaxChildren : graph[stack[n].object] \in [1 .. c -> Object \union {Leaf}]
  BY DEF Typed
<1>2. Len(graph[stack[n].object]) = c
  <2>1. c \in Nat
    BY SMT
  <2>2. graph[stack[n].object] \in Seq(Object \union {Leaf})
    BY <1>1, <2>1, SeqDef
  <2>3. Len(graph[stack[n].object]) \in Nat /\ 1 .. Len(graph[stack[n].object]) = 1 .. c
    BY <1>1, <2>2, LenProperties
  <2> QED
    BY <2>1, <2>3, SMT
<1>3. PICK x \in Nat \ {0} : x = stack[n].next
  <2>1. n \in 1 .. n
    BY SMT
  <2>2. stack[n] \in Frame
    BY <2>1, ElementOfSeq DEF Typed
  <2> QED
    BY <2>2 DEF Frame
<1>4. x \in 1 .. c /\ x \in 1 .. MaxChildren
  BY <1>2, <1>3, RedactorAssumption, SMT
<1> QED
  BY <1>1, <1>3, <1>4 DEF Follow

LEMMA PeerWalkStep == ASSUME PeerInv, Claim = "peer", Walk PROVE PeerInv'
<1>1. PICK n \in Nat : n = 0
  BY SMT
<1>2. PICK open \in Seq(Frame) : open = <<>> /\ n = Len(open) /\ Enter(Root, open)
  <2>1. Len(<<>>) = 0
    BY SMT
  <2> QED
    BY <1>1, <2>1, EmptySeq DEF Walk
<1>3. Typed /\ Root \in Object /\ result' = "pending" /\ walked = {}
  BY RedactorAssumption DEF PeerInv, Walk
<1>4. /\ Typed' /\ Len(stack') = n + 1 /\ stack'[n + 1].object = Root /\ walked' = walked
  BY <1>2, <1>3, Entered
<1>5. Root \in DOMAIN graph'
  BY <1>2, <1>3, EnterReads
<1>6. n + 1 = 1 /\ 1 .. 1 = {1} /\ 1 .. 1 - 1 = {} /\ 1 <= StackLimit
  BY <1>1, RedactorAssumption, SMT
<1>7. Chain'
  BY <1>3, <1>4, <1>5, <1>6 DEF Chain
<1> QED
  BY <1>3, <1>4, <1>7 DEF PeerInv, StackSuffices

LEMMA PeerMemberStep == ASSUME PeerInv, Claim = "peer", Member PROVE PeerInv'
<1>1. Typed /\ Chain /\ stack \in Seq(Frame) /\ stack # <<>> /\ walked = {}
  BY DEF PeerInv, Typed, Member
<1>2. PICK n \in Nat \ {0} : n = Len(stack)
  BY <1>1, LenProperties, EmptySeq
<1>3. /\ n \in 1 .. n /\ n \in Nat /\ 1 \in 1 .. n /\ Top = stack[n]
      /\ \A i \in 1 .. n - 1 : i \in 1 .. n /\ i + 1 \in 1 .. n
  BY <1>2, SMT DEF Top
<1>4. /\ Up \in Seq(Frame) /\ Len(Up) = n
      /\ \A i \in 1 .. n : Up[i].object = stack[i].object
  BY <1>1, <1>2, UpIs
<1>5. /\ n <= StackLimit /\ stack[1].object = Root /\ result = "pending"
      /\ \A i \in 1 .. n : stack[i].object \in DOMAIN graph
      /\ \A i \in 1 .. n - 1 :
            \E j \in 1 .. MaxChildren : Follow(stack[i].object, j) = stack[i + 1].object
  BY <1>1, <1>2 DEF Chain
<1>6. PICK x \in 1 .. MaxChildren :
         /\ Follow(stack[n].object, x) = graph[stack[n].object][stack[n].next]
         /\ Follow(stack[n].object, x) \in Object \union {Leaf}
  BY <1>1, <1>2, <1>3, <1>5, MemberUp DEF Member
<1>7. PICK o : o = Follow(stack[n].object, x) /\ o = graph[Top.object][Top.next]
  BY <1>3, <1>6
<1>8. result' = "pending"
  BY <1>5 DEF Member
<1>9. CASE stack' = Up /\ UNCHANGED <<graph, walked>>
  <2>1. Typed'
    BY <1>1, <1>4, <1>9 DEF Typed
  <2>2. Len(stack') = n /\ \A i \in 1 .. n : stack'[i].object = stack[i].object
    BY <1>4, <1>9
  <2>3. \A i \in 1 .. n - 1 :
           \E j \in 1 .. MaxChildren : Follow(stack[i].object, j)' = stack'[i + 1].object
    BY <1>3, <1>5, <1>9, <2>2 DEF Follow
  <2>4. Chain'
    BY <1>3, <1>5, <1>8, <1>9, <2>2, <2>3 DEF Chain
  <2> QED
    BY <1>1, <1>8, <1>9, <2>1, <2>4 DEF PeerInv, StackSuffices
<1>10. CASE o \in Object /\ Len(stack) < StackLimit /\ Enter(o, Up)
  <2>1. PICK n2 \in Nat \ {0} : n2 = n + 1 /\ n2 - 1 = n /\ n2 <= StackLimit
                                /\ 1 .. n2 = (1 .. n) \union {n2} /\ 1 .. n = (1 .. n - 1) \union {n}
                                /\ \A i \in 1 .. n - 1 : i \in 1 .. n /\ i + 1 \in 1 .. n
    BY <1>2, <1>10, RedactorAssumption, SMT
  <2>2. /\ Typed' /\ Len(stack') = n2 /\ walked' = walked /\ stack'[n2].object = o
        /\ \A i \in 1 .. n : stack'[i].object = stack[i].object
    BY <1>1, <1>3, <1>4, <1>10, <2>1, Entered
  <2>3. /\ o \in DOMAIN graph' /\ DOMAIN graph \subseteq DOMAIN graph'
        /\ \A y \in DOMAIN graph : graph'[y] = graph[y]
    BY <1>1, <1>10, EnterReads
  <2>4. \A i \in 1 .. n2 : stack'[i].object \in DOMAIN graph'
    BY <1>5, <2>1, <2>2, <2>3
  <2>5. ASSUME NEW i \in 1 .. n
        PROVE  \E j \in 1 .. MaxChildren : Follow(stack[i].object, j)' = stack'[i + 1].object
    <3>1. \A j : Follow(stack[i].object, j)' = Follow(stack[i].object, j)
      BY <1>5, <2>2, <2>3 DEF Follow
    <3>2. CASE i = n
      <4>1. stack'[i + 1].object = o
        BY <2>1, <2>2, <3>2
      <4>2. Follow(stack[i].object, x)' = o
        BY <1>7, <3>1, <3>2
      <4> QED
        BY <4>1, <4>2
    <3>3. CASE i \in 1 .. n - 1
      <4>1. stack'[i + 1].object = stack[i + 1].object
        BY <1>3, <2>2, <3>3
      <4> QED
        BY <1>5, <3>1, <3>3, <4>1
    <3> QED
      BY <2>1, <3>2, <3>3
  <2>6. Chain'
    BY <1>3, <1>5, <1>8, <2>1, <2>2, <2>4, <2>5 DEF Chain
  <2> QED
    BY <1>1, <1>8, <2>2, <2>6 DEF PeerInv, StackSuffices
<1> QED
  <2>1. ~Cut(o)
    BY DEF Cut
  <2>2. o = Leaf \/ o \in Object
    BY <1>6, <1>7
  <2> QED
    BY <1>7, <1>9, <1>10, <2>1, <2>2 DEF Member

(* Where the stack ends there is a chain of arrays as long as it.          *)
LEMMA PeerOverflowStep == ASSUME PeerInv, Claim = "peer", Overflow PROVE PeerInv'
<1>1. Typed /\ Chain /\ stack \in Seq(Frame) /\ stack # <<>> /\ walked = {}
  BY DEF PeerInv, Typed, Overflow
<1>2. PICK n \in Nat \ {0} : n = Len(stack) /\ n = StackLimit
  BY <1>1, LenProperties, EmptySeq DEF Overflow
<1>3. n \in 1 .. n /\ Top = stack[n] /\ 0 \in 0 .. n /\ 0 + 1 = 1 /\ 1 \in 1 .. n /\ 0 < n /\ ~(n < n)
  BY <1>2, SMT DEF Top
<1>4. /\ stack[1].object = Root
      /\ \A i \in 1 .. n : stack[i].object \in DOMAIN graph
      /\ \A i \in 1 .. n - 1 :
            \E j \in 1 .. MaxChildren : Follow(stack[i].object, j) = stack[i + 1].object
  BY <1>1, <1>2 DEF Chain
<1>5. PICK x \in 1 .. MaxChildren :
         /\ Follow(stack[n].object, x) = graph[stack[n].object][stack[n].next]
         /\ Follow(stack[n].object, x) \in Object \union {Leaf}
  BY <1>1, <1>2, <1>3, <1>4, MemberUp DEF Overflow
<1>6. PICK o \in Object : o = Follow(stack[n].object, x)
  <2>1. graph[Top.object][Top.next] # Leaf
    BY DEF Overflow
  <2> QED
    BY <1>3, <1>5, <2>1
<1>7. PICK chain : chain = [k \in 0 .. n |-> IF k < n THEN stack[k + 1].object ELSE o]
  OBVIOUS
<1>8. chain \in [0 .. n -> Object] /\ chain[0] = Root
  <2>1. \A k \in 0 .. n : k < n => k + 1 \in 1 .. n
    BY SMT
  <2>2. \A i \in 1 .. n : stack[i].object \in Object
    BY <1>4 DEF PeerInv, Typed
  <2>3. \A k \in 0 .. n : (IF k < n THEN stack[k + 1].object ELSE o) \in Object
    BY <2>1, <2>2
  <2> QED
    BY <1>3, <1>4, <1>7, <2>3
<1>9. ASSUME NEW k \in 1 .. n PROVE \E i \in 1 .. MaxChildren : chain[k] = Follow(chain[k - 1], i)
  <2>1. k \in 0 .. n /\ k - 1 \in 0 .. n /\ k - 1 < n /\ (k - 1) + 1 = k /\ (k < n => k \in 1 .. n - 1) /\ (~(k < n) => k = n)
    BY SMT
  <2>2. chain[k - 1] = stack[k].object
    BY <1>7, <2>1
  <2>3. CASE k < n
    BY <1>4, <1>7, <2>1, <2>2, <2>3
  <2>4. CASE k = n
    BY <1>3, <1>6, <1>7, <2>1, <2>2, <2>4
  <2> QED
    BY <2>1, <2>3, <2>4
<1>10. Nested(chain)
  BY <1>2, <1>8, <1>9 DEF Nested
<1>11. /\ stack' = <<>> /\ UNCHANGED <<field, graph, walked>>
  BY DEF Overflow
<1>12. Nested(chain)'
  BY <1>10, <1>11 DEF Nested, Follow
<1>13. StackSuffices'
  BY <1>2, <1>8, <1>11, <1>12, ClaimStays DEF StackSuffices
<1>14. Typed'
  BY <1>1, <1>11, EmptySeq DEF Typed
<1>15. Chain'
  <2>1. Len(stack') = 0 /\ 1 .. 0 = {} /\ 1 .. 0 - 1 = {} /\ 0 <= StackLimit
    BY <1>11, RedactorAssumption, SMT
  <2> QED
    BY <1>11, <2>1 DEF Chain
<1> QED
  BY <1>1, <1>11, <1>13, <1>14, <1>15 DEF PeerInv

LEMMA PeerLeaveStep == ASSUME PeerInv, Claim = "peer", Leave PROVE PeerInv'
<1>1. Typed /\ Chain /\ stack \in Seq(Frame) /\ stack # <<>> /\ walked = {} /\ result = "pending"
  BY DEF PeerInv, Typed, Chain, Leave
<1>2. PICK n \in Nat \ {0} : n = Len(stack)
  BY <1>1, LenProperties, EmptySeq
<1>3. PICK l \in Nat : l = n - 1
  BY SMT
<1>4. /\ l <= n /\ (\A i \in 1 .. l : i \in 1 .. n)
      /\ \A i \in 1 .. l - 1 : i \in 1 .. n - 1 /\ i \in 1 .. l /\ i + 1 \in 1 .. l
  BY <1>3, SMT
<1>5. stack' \in Seq(Frame) /\ Len(stack') = l /\ \A i \in 1 .. l : stack'[i] = stack[i]
  BY <1>1, <1>2, <1>3, FrontIs DEF Leave
<1>6. UNCHANGED <<graph, walked>>
  BY DEF Leave
<1>7. result' # "overflow" /\ (stack' # <<>> => result' = "pending")
  <2>1. CASE n = 1
    <3>1. stack' = <<>>
      BY <1>3, <1>5, <2>1, EmptySeq, SMT
    <3>2. result' \in Summaries
      BY <1>2, <2>1 DEF Leave
    <3> QED
      BY <3>1, <3>2, RuleIsAResult DEF Summaries
  <2>2. CASE n # 1
    BY <1>1, <1>2, <2>2 DEF Leave
  <2> QED
    BY <2>1, <2>2
<1>8. Chain'
  <2>1. l <= StackLimit
    <3>1. n <= StackLimit
      BY <1>1, <1>2 DEF Chain
    <3> QED
      BY <1>3, <3>1, RedactorAssumption, SMT
  <2>2. stack' # <<>> => 1 \in 1 .. l /\ stack[1].object = Root
    <3>1. stack' # <<>> => l # 0
      BY <1>5, EmptySeq
    <3>2. l # 0 => 1 \in 1 .. l
      BY SMT
    <3> QED
      BY <1>1, <3>1, <3>2 DEF Chain
  <2>3. /\ \A i \in 1 .. n : stack[i].object \in DOMAIN graph
        /\ \A i \in 1 .. n - 1 :
              \E j \in 1 .. MaxChildren : Follow(stack[i].object, j) = stack[i + 1].object
    BY <1>1, <1>2 DEF Chain
  <2>4. \A i \in 1 .. l : stack'[i].object \in DOMAIN graph'
    BY <1>4, <1>5, <1>6, <2>3
  <2>5. \A i \in 1 .. l - 1 :
           \E j \in 1 .. MaxChildren : Follow(stack[i].object, j)' = stack'[i + 1].object
    BY <1>4, <1>5, <1>6, <2>3 DEF Follow
  <2> QED
    BY <1>5, <1>7, <2>1, <2>2, <2>4, <2>5 DEF Chain
<1>9. Typed'
  BY <1>1, <1>5, <1>6 DEF Typed
<1> QED
  BY <1>1, <1>6, <1>7, <1>8, <1>9 DEF PeerInv, StackSuffices

LEMMA PeerInvStep == ASSUME PeerInv, Claim = "peer", [RedactNext]_redactVars PROVE PeerInv'
<1>1. CASE UNCHANGED redactVars
  <2>1. Typed' /\ Chain' /\ walked' = {}
    BY <1>1 DEF redactVars, PeerInv, Typed, Chain, Follow
  <2>2. StackSuffices'
    <3>1. Claim' = Claim
      BY <1>1, ClaimStays DEF redactVars
    <3>2. \A chain : Nested(chain)' <=> Nested(chain)
      BY <1>1 DEF redactVars, Nested, Follow
    <3> QED
      BY <1>1, <3>1, <3>2 DEF redactVars, PeerInv, StackSuffices
  <2> QED
    BY <2>1, <2>2 DEF PeerInv
<1>2. CASE Redact \/ GetterThrows
  <2>1. stack' = <<>> /\ walked' = {} /\ UNCHANGED graph /\ result' # "overflow"
    BY <1>2, RuleIsAResult DEF Redact, GetterThrows, PeerInv
  <2>2. Len(stack') = 0 /\ 1 .. 0 = {} /\ 1 .. 0 - 1 = {} /\ 0 <= StackLimit
    BY <2>1, RedactorAssumption, SMT
  <2>3. Typed'
    BY <2>1, EmptySeq DEF Typed, PeerInv
  <2>4. Chain'
    BY <2>1, <2>2 DEF Chain
  <2> QED
    BY <2>1, <2>3, <2>4 DEF PeerInv, StackSuffices
<1> QED
  BY <1>1, <1>2, PeerWalkStep, PeerMemberStep, PeerOverflowStep, PeerLeaveStep DEF RedactNext

-----------------------------------------------------------------------------
LEMMA Initially == RedactInit => IInv
<1> SUFFICES ASSUME RedactInit PROVE IInv
  OBVIOUS
<1>1. stack = <<>> /\ seen = {} /\ walked = {} /\ DOMAIN graph = {} /\ result = "pending"
  <2>1. graph = <<>>
    BY DEF RedactInit
  <2>2. DOMAIN <<>> = {}
    OBVIOUS
  <2> QED
    BY <2>1, <2>2 DEF RedactInit
<1>2. Len(stack) = 0 /\ 1 .. 0 = {} /\ 1 .. 0 - 1 = {}
  BY <1>1, SMT
<1>3. Typed
  BY <1>1, EmptySeq DEF Typed
<1>4. 0 <= MAX_SORT_DEPTH /\ 0 <= StackLimit
  BY RedactorAssumption, SMT
<1>5. (\A i \in 1 .. Len(stack) - 1 : FALSE) /\ \A i \in 1 .. Len(stack) : FALSE
  BY <1>2
<1>6. Path /\ Chain
  BY <1>1, <1>2, <1>4, <1>5 DEF Path, Chain
<1>7. WalkedRead /\ NothingMissed /\ Phases /\ StackSuffices
  BY <1>1 DEF WalkedRead, NothingMissed, Phases, StackSuffices
<1> QED
  BY <1>1, <1>3, <1>6, <1>7 DEF IInv, PeerInv, WalkInv

LEMMA InductiveStep == IInv /\ [RedactNext]_redactVars => IInv'
<1> SUFFICES ASSUME IInv, [RedactNext]_redactVars PROVE IInv'
  OBVIOUS
<1>1. UNCHANGED field
  BY DEF RedactNext, Redact, Walk, Member, Overflow, Leave, GetterThrows, redactVars
<1>2. Claim' = Claim
  BY <1>1, ClaimStays
<1> QED
  BY <1>2, WalkInvStep, PeerInvStep DEF IInv

LEMMA Invariance == RedactSpec => []IInv
BY Initially, InductiveStep, PTL DEF RedactSpec

(* WalksEveryWay: shared, circular or deep, the walk of an application     *)
(* object goes every way that meets no object twice and is not too deep,   *)
(* and no other (redactor.ts:124-153).                                     *)
THEOREM Walking == RedactSpec => []WalksEveryWay
<1>1. ASSUME WalkInv PROVE WalksEveryWay
  <2>1. walked \subseteq SimpleWays
    BY <1>1 DEF WalkInv, WalkedRead, SimpleWays
  <2>2. ASSUME walked # {}, result \notin {"pending", "threw"} PROVE SimpleWays \subseteq walked
    <3>1. stack = <<>>
      BY <1>1, <2>2 DEF WalkInv, Phases
    <3>2. 1 .. Len(stack) = {}
      BY <3>1, SMT
    <3> QED
      BY <1>1, <2>2, <3>2 DEF WalkInv, NothingMissed, Ahead
  <2> QED
    BY <2>1, <2>2 DEF WalksEveryWay
<1>2. ASSUME PeerInv PROVE WalksEveryWay
  BY <1>2 DEF PeerInv, WalksEveryWay
<1>3. IInv => WalksEveryWay
  BY <1>1, <1>2 DEF IInv
<1> QED
  BY <1>3, Invariance, PTL

(* However deep the object and wherever it contains itself, at most        *)
(* MAX_SORT_DEPTH calls of sortDeep() are open (redactor.ts:125-126, 133). *)
THEOREM Bounded == RedactSpec => []StackBounded
<1>1. IInv => StackBounded
  BY DEF IInv, WalkInv, Path, StackBounded
<1> QED
  BY <1>1, Invariance, PTL

(* StackSuffices: no body and no ciphertext blows the stack, and a peer's  *)
(* field does so only with arrays that nest as deep as the stack or        *)
(* contain one another (redactor.ts:125-126, 284-288).                     *)
THEOREM Sufficing == RedactSpec => []StackSuffices
<1>1. IInv => StackSuffices
  BY DEF IInv, WalkInv, Phases, PeerInv, StackSuffices
<1> QED
  BY <1>1, Invariance, PTL

(* AllowlistOpensBodiesOnly: what may leave as it is of a field that an    *)
(* option set lists, and when its method must be on the allowlist          *)
(* (redactor.ts:258-279).                                                  *)
THEOREM Opening == RedactSpec => []AllowlistOpensBodiesOnly
<1> DEFINE Opened ==
        /\ classes \subseteq Class /\ value \in Value
        /\ stack # <<>> => NeedsWalk
        /\ result = "full" => value # "undefined" /\ Rule = "full"
<1>1. RedactInit => Opened
  BY DEF RedactInit
<1>2. Opened /\ [RedactNext]_redactVars => Opened'
  <2> SUFFICES ASSUME Opened, [RedactNext]_redactVars PROVE Opened'
    OBVIOUS
  <2>1. UNCHANGED field
    BY DEF RedactNext, Redact, Walk, Member, Overflow, Leave, GetterThrows, redactVars
  <2>2. Rule' = Rule /\ (NeedsWalk' <=> NeedsWalk)
    BY <2>1, ClaimStays DEF NeedsWalk, field
  <2>3. NeedsWalk => Rule # "full"
    <3>1. value = "peers" => PeerValue = "hashed"
      BY DEF PeerValue
    <3> QED
      BY <3>1, RuleIs DEF NeedsWalk
  <2>4. stack' # <<>> => NeedsWalk
    BY DEF RedactNext, Redact, Walk, Member, Overflow, Leave, GetterThrows, redactVars
  <2>5. result' = "full" => value # "undefined" /\ Rule = "full"
    <3>1. CASE Redact
      BY <3>1 DEF Redact
    <3>2. CASE Leave
      BY <2>3, <3>2 DEF Leave, Summaries
    <3>3. CASE GetterThrows \/ Overflow
      BY <3>3 DEF GetterThrows, Overflow
    <3>4. CASE Walk \/ Member \/ UNCHANGED redactVars
      BY <3>4 DEF Walk, Member, redactVars
    <3> QED
      BY <3>1, <3>2, <3>3, <3>4 DEF RedactNext
  <2> QED
    BY <2>1, <2>2, <2>4, <2>5 DEF field
<1>3. Opened => AllowlistOpensBodiesOnly
  BY OpenedByAllowlist DEF AllowlistOpensBodiesOnly
<1> QED
  BY <1>1, <1>2, <1>3, PTL DEF RedactSpec
=============================================================================
