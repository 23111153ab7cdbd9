-------------------------- MODULE Gatekeeper_proofs --------------------------
(***************************************************************************)
(* The theorems about Gatekeeper, for every set of calls (finite or not),  *)
(* every number of slots and every setting of the queue, the bucket and    *)
(* the budget.                                                             *)
(*                                                                         *)
(* A step of the gatekeeper touches up to three books: the slots and their *)
(* queue, the token budget, and the bucket with its timers.  Each book has *)
(* its own invariant; the lemmas say, book by book, what the few kinds of  *)
(* movement do to it, and the last section puts the actions together.      *)
(***************************************************************************)
EXTENDS Gatekeeper, TLAPS, SequenceTheorems, FiniteSetTheorems

Arrived == Waits \cup Holds \cup Ended
Places == {"new"} \cup Arrived
Claims == Holds \cup {"woken"}                                \* have a slot
Owed == {"queued", "woken", "failed", "overflow"} \cup Holds  \* are reserved for

(* The slots and their queue: the queue holds the calls that wait and were *)
(* not woken, each once.                                                   *)
Fifo ==
  /\ queue \in Seq(Call)
  /\ \A i, j \in 1 .. Len(queue) : queue[i] = queue[j] => i = j
  /\ \A d \in Call : at[d] = "queued" <=> \E i \in 1 .. Len(queue) : queue[i] = d
  /\ Len(queue) = Cardinality(In({"queued"}))

SlotBook ==
  /\ slots \in Nat /\ free \in Nat
  /\ at \in [Call -> Places]
  /\ IsFiniteSet(In(Arrived))
  /\ Fifo
  /\ free + Cardinality(In(Claims)) = slots
  /\ free > 0 /\ queue # <<>> => In({"woken"}) # {}
  /\ Cardinality(In(Waits)) <= QueueDepth

(* The token budget.                                                       *)
BudgetBook ==
  /\ reserved \in Nat /\ spent \in Nat /\ level \in 0 .. 2
  /\ reserved = Estimate * Cardinality(In(Owed))
  /\ level >= Rung(spent + reserved)

(* The bucket.  A call that sleeps for a token finds one when it wakes, as *)
(* long as it is alone; then the bucket is never passed over.              *)
BucketBook ==
  /\ bucket \in 0 .. Full
  /\ timer \in [Call -> Nat]
  /\ attempts \in [Call -> 0 .. Retries]
  /\ allowance \in Int /\ allowance <= Full
  /\ slots = 1 =>
       /\ allowance = bucket
       /\ \A c \in In({"pacing"}) : bucket + timer[c] >= TokenTicks

GInv == slots \in SlotChoices /\ SlotBook /\ BudgetBook /\ BucketBook

-----------------------------------------------------------------------------
(* Counting.                                                               *)

Ind(x, S) == IF x \in S THEN 1 ELSE 0

LEMMA Without ==
  ASSUME NEW S, NEW c, IsFiniteSet(S)
  PROVE  /\ IsFiniteSet(S \ {c})
         /\ Cardinality(S) \in Nat /\ Cardinality(S \ {c}) \in Nat
         /\ Cardinality(S) = Cardinality(S \ {c}) + Ind(c, S)
<1>1. IsFiniteSet(S \ {c})
  BY FS_RemoveElement
<1>2. Cardinality(S) \in Nat /\ Cardinality(S \ {c}) \in Nat
  BY <1>1, FS_CardinalityType
<1>3. Cardinality(S \ {c}) = IF c \in S THEN Cardinality(S) - 1 ELSE Cardinality(S)
  BY FS_RemoveElement
<1> QED
  BY <1>1, <1>2, <1>3 DEF Ind

(* Two sets that differ at most in c, or at most in c and d.               *)
LEMMA DifferInOne ==
  ASSUME NEW S, NEW T, NEW c, IsFiniteSet(S), T \ {c} = S \ {c}
  PROVE  /\ IsFiniteSet(T)
         /\ Cardinality(S) \in Nat /\ Cardinality(T) \in Nat
         /\ Cardinality(T) + Ind(c, S) = Cardinality(S) + Ind(c, T)
<1>1. IsFiniteSet(S \cup {c}) /\ T \in SUBSET (S \cup {c})
  BY FS_AddElement
<1>2. IsFiniteSet(T)
  BY <1>1, FS_Subset
<1>3. Ind(c, S) \in Nat /\ Ind(c, T) \in Nat
  BY DEF Ind
<1>4. /\ Cardinality(S) \in Nat /\ Cardinality(S \ {c}) \in Nat
      /\ Cardinality(S) = Cardinality(S \ {c}) + Ind(c, S)
  BY Without
<1>5. /\ Cardinality(T) \in Nat
      /\ Cardinality(T) = Cardinality(T \ {c}) + Ind(c, T)
  BY <1>2, Without
<1> QED
  BY <1>2, <1>3, <1>4, <1>5

LEMMA DifferInTwo ==
  ASSUME NEW S, NEW T, NEW c, NEW d, c # d, IsFiniteSet(S), (T \ {c}) \ {d} = (S \ {c}) \ {d}
  PROVE  /\ IsFiniteSet(T)
         /\ Cardinality(S) \in Nat /\ Cardinality(T) \in Nat
         /\ Cardinality(T) + Ind(c, S) + Ind(d, S) = Cardinality(S) + Ind(c, T) + Ind(d, T)
<1>1. IsFiniteSet(S \ {c}) /\ Cardinality(S) = Cardinality(S \ {c}) + Ind(c, S) /\ Cardinality(S) \in Nat
  BY Without
<1>2. /\ IsFiniteSet(T \ {c})
      /\ Cardinality(S \ {c}) \in Nat /\ Cardinality(T \ {c}) \in Nat
      /\ Cardinality(T \ {c}) + Ind(d, S \ {c}) = Cardinality(S \ {c}) + Ind(d, T \ {c})
  BY <1>1, DifferInOne
<1>3. IsFiniteSet((T \ {c}) \cup {c}) /\ T \in SUBSET ((T \ {c}) \cup {c})
  BY <1>2, FS_AddElement
<1>4. IsFiniteSet(T)
  BY <1>3, FS_Subset
<1>5. Cardinality(T) = Cardinality(T \ {c}) + Ind(c, T) /\ Cardinality(T) \in Nat
  BY <1>4, Without
<1>6. /\ Ind(d, S \ {c}) = Ind(d, S) /\ Ind(d, T \ {c}) = Ind(d, T)
      /\ {Ind(c, S), Ind(d, S), Ind(c, T), Ind(d, T)} \subseteq Nat
  BY DEF Ind
<1> QED
  BY <1>1, <1>2, <1>4, <1>5, <1>6

(* One call moves in a step of the gatekeeper...                           *)
LEMMA OneMove ==
  ASSUME SlotBook, NEW c \in Call, at' \in [Call -> Places],
         \A e \in Call \ {c} : at'[e] = at[e]
  PROVE  /\ IsFiniteSet(In(Arrived)')
         /\ \A P \in SUBSET Arrived :
              /\ Cardinality(In(P)) \in Nat /\ Cardinality(In(P)') \in Nat
              /\ Cardinality(In(P)') + Ind(at[c], P) = Cardinality(In(P)) + Ind(at'[c], P)
<1>1. IsFiniteSet(In(Arrived))
  BY DEF SlotBook
<1>2. ASSUME NEW P \in SUBSET Arrived
      PROVE  /\ IsFiniteSet(In(P)')
             /\ Cardinality(In(P)) \in Nat /\ Cardinality(In(P)') \in Nat
             /\ Cardinality(In(P)') + Ind(at[c], P) = Cardinality(In(P)) + Ind(at'[c], P)
  <2>1. In(P)' \ {c} = In(P) \ {c} /\ In(P) \in SUBSET In(Arrived)
    BY DEF In
  <2>2. Ind(c, In(P)) = Ind(at[c], P) /\ Ind(c, In(P)') = Ind(at'[c], P)
    BY DEF In, Ind
  <2>3. IsFiniteSet(In(P))
    BY <1>1, <2>1, FS_Subset
  <2>4. /\ IsFiniteSet(In(P)')
        /\ Cardinality(In(P)) \in Nat /\ Cardinality(In(P)') \in Nat
        /\ Cardinality(In(P)') + Ind(c, In(P)) = Cardinality(In(P)) + Ind(c, In(P)')
    BY <2>1, <2>3, DifferInOne
  <2> QED
    BY <2>2, <2>4
<1> QED
  BY <1>2

(* ... or a second one with it.                                            *)
LEMMA TwoMoves ==
  ASSUME SlotBook, NEW c \in Call, NEW d \in Call, c # d, at' \in [Call -> Places],
         \A e \in Call \ {c, d} : at'[e] = at[e]
  PROVE  /\ IsFiniteSet(In(Arrived)')
         /\ \A P \in SUBSET Arrived :
              /\ Cardinality(In(P)) \in Nat /\ Cardinality(In(P)') \in Nat
              /\ Cardinality(In(P)') + Ind(at[c], P) + Ind(at[d], P)
                   = Cardinality(In(P)) + Ind(at'[c], P) + Ind(at'[d], P)
<1>1. IsFiniteSet(In(Arrived))
  BY DEF SlotBook
<1>2. ASSUME NEW P \in SUBSET Arrived
      PROVE  /\ IsFiniteSet(In(P)')
             /\ Cardinality(In(P)) \in Nat /\ Cardinality(In(P)') \in Nat
             /\ Cardinality(In(P)') + Ind(at[c], P) + Ind(at[d], P)
                  = Cardinality(In(P)) + Ind(at'[c], P) + Ind(at'[d], P)
  <2>1. (In(P)' \ {c}) \ {d} = (In(P) \ {c}) \ {d} /\ In(P) \in SUBSET In(Arrived)
    BY DEF In
  <2>2. /\ Ind(c, In(P)) = Ind(at[c], P) /\ Ind(c, In(P)') = Ind(at'[c], P)
        /\ Ind(d, In(P)) = Ind(at[d], P) /\ Ind(d, In(P)') = Ind(at'[d], P)
    BY DEF In, Ind
  <2>3. IsFiniteSet(In(P))
    BY <1>1, <2>1, FS_Subset
  <2>4. /\ IsFiniteSet(In(P)')
        /\ Cardinality(In(P)) \in Nat /\ Cardinality(In(P)') \in Nat
        /\ Cardinality(In(P)') + Ind(c, In(P)) + Ind(d, In(P))
             = Cardinality(In(P)) + Ind(c, In(P)') + Ind(d, In(P)')
    BY <2>1, <2>3, DifferInTwo
  <2> QED
    BY <2>2, <2>4
<1> QED
  BY <1>2

-----------------------------------------------------------------------------
(* The slots and their queue.                                              *)

LEMMA SlotsAreConserved ==
  ASSUME SlotBook
  PROVE  SlotsConserved
<1>1. DOMAIN queue = 1 .. Len(queue) /\ \A i \in 1 .. Len(queue) : queue[i] \in Call
  BY DEF SlotBook, Fifo
<1>2. {queue[i] : i \in DOMAIN queue} = In({"queued"})
  BY <1>1 DEF SlotBook, Fifo, In
<1> QED
  BY <1>2 DEF SlotBook, Fifo, SlotsConserved, Claims

LEMMA FifoKept ==
  ASSUME Fifo, UNCHANGED queue, In({"queued"})' = In({"queued"})
  PROVE  Fifo'
BY DEF Fifo, In

LEMMA FifoAppend ==
  ASSUME SlotBook, NEW c \in Call, at[c] # "queued",
         at' = [at EXCEPT ![c] = "queued"], queue' = Append(queue, c)
  PROVE  Fifo'
<1>1. Fifo /\ at \in [Call -> Places]
  BY DEF SlotBook
<1>2. /\ queue' \in Seq(Call) /\ Len(queue') = Len(queue) + 1 /\ Len(queue) \in Nat
      /\ \A i \in 1 .. Len(queue) : queue'[i] = queue[i]
      /\ queue'[Len(queue) + 1] = c
  BY <1>1, AppendProperties DEF Fifo
<1>3. at' \in [Call -> Places] /\ at'[c] = "queued" /\ \A d \in Call \ {c} : at'[d] = at[d]
  BY <1>1 DEF Places, Arrived, Waits
<1>4. \A i, j \in 1 .. Len(queue') : queue'[i] = queue'[j] => i = j
  BY <1>1, <1>2 DEF Fifo
<1>5. \A d \in Call : at'[d] = "queued" <=> \E i \in 1 .. Len(queue') : queue'[i] = d
  <2>1. \A d \in Call : (\E i \in 1 .. Len(queue') : queue'[i] = d)
                         <=> d = c \/ \E i \in 1 .. Len(queue) : queue[i] = d
    BY <1>2
  <2> QED
    BY <1>1, <1>3, <2>1 DEF Fifo
<1>6. Len(queue') = Cardinality(In({"queued"})')
  <2>1. "queued" \in Arrived /\ {"queued"} \in SUBSET Arrived
    BY DEF Arrived, Waits
  <2>2. /\ Cardinality(In({"queued"})) \in Nat /\ Cardinality(In({"queued"})') \in Nat
        /\ Cardinality(In({"queued"})') + Ind(at[c], {"queued"})
             = Cardinality(In({"queued"})) + Ind(at'[c], {"queued"})
    BY <1>3, <2>1, OneMove
  <2> QED
    BY <1>1, <1>2, <1>3, <2>2 DEF Ind, Fifo
<1> QED
  BY <1>2, <1>4, <1>5, <1>6 DEF Fifo

(* The head leaves the queue: c moves too, from and to other places.       *)
LEMMA FifoTail ==
  ASSUME SlotBook, queue # <<>>, NEW c \in Call, at[c] # "queued",
         NEW x \in Arrived \ {"queued"},
         at' = [at EXCEPT ![c] = x, ![Head(queue)] = "woken"], queue' = Tail(queue)
  PROVE  /\ Fifo'
         /\ at' \in [Call -> Places] /\ at'[c] = x
         /\ \E h \in Call \ {c} :
              /\ at[h] = "queued" /\ at'[h] = "woken"
              /\ \A d \in Call \ {c, h} : at'[d] = at[d]
<1>1. Fifo /\ at \in [Call -> Places]
  BY DEF SlotBook
<1>0. PICK h \in Call : h = Head(queue)
  BY <1>1, HeadTailProperties DEF Fifo
<1>2. /\ h = queue[1] /\ Len(queue) \in Nat \ {0}
      /\ queue' \in Seq(Call) /\ Len(queue') = Len(queue) - 1
      /\ \A i \in 1 .. Len(queue') : queue'[i] = queue[i + 1]
  BY <1>0, <1>1, HeadTailProperties, EmptySeq DEF Fifo
<1>3. at[h] = "queued" /\ h # c
  BY <1>1, <1>2 DEF Fifo
<1>4. /\ at' \in [Call -> Places] /\ at'[c] = x /\ at'[h] = "woken"
      /\ \A d \in Call \ {c, h} : at'[d] = at[d]
  BY <1>0, <1>1, <1>2, <1>3 DEF Places, Arrived, Waits
<1>5. \A i, j \in 1 .. Len(queue') : queue'[i] = queue'[j] => i = j
  BY <1>1, <1>2 DEF Fifo
<1>6. \A d \in Call : at'[d] = "queued" <=> \E i \in 1 .. Len(queue') : queue'[i] = d
  <2>1. \A d \in Call : (\E i \in 1 .. Len(queue') : queue'[i] = d)
                         <=> \E i \in 2 .. Len(queue) : queue[i] = d
    <3>1. ASSUME NEW d, NEW i \in 2 .. Len(queue), queue[i] = d
          PROVE  \E j \in 1 .. Len(queue') : queue'[j] = d
      <4>1. i - 1 \in 1 .. Len(queue') /\ queue'[i - 1] = d
        BY <1>2, <3>1
      <4> QED
        BY <4>1
    <3>2. ASSUME NEW d, NEW i \in 1 .. Len(queue'), queue'[i] = d
          PROVE  \E j \in 2 .. Len(queue) : queue[j] = d
      <4>1. i + 1 \in 2 .. Len(queue) /\ queue[i + 1] = d
        BY <1>2, <3>2
      <4> QED
        BY <4>1
    <3> QED
      BY <3>1, <3>2
  <2>2. \A d \in Call : (\E i \in 2 .. Len(queue) : queue[i] = d)
                         <=> d # h /\ \E i \in 1 .. Len(queue) : queue[i] = d
    BY <1>1, <1>2 DEF Fifo
  <2> QED
    BY <1>1, <1>3, <1>4, <2>1, <2>2 DEF Fifo
<1>7. Len(queue') = Cardinality(In({"queued"})')
  <2>1. {"queued"} \in SUBSET Arrived
    BY DEF Arrived, Waits
  <2>2. /\ Cardinality(In({"queued"})) \in Nat /\ Cardinality(In({"queued"})') \in Nat
        /\ Cardinality(In({"queued"})') + Ind(at[c], {"queued"}) + Ind(at[h], {"queued"})
             = Cardinality(In({"queued"})) + Ind(at'[c], {"queued"}) + Ind(at'[h], {"queued"})
    BY <1>3, <1>4, <2>1, TwoMoves
  <2>3. /\ Ind(at[c], {"queued"}) = 0 /\ Ind(at[h], {"queued"}) = 1
        /\ Ind(at'[c], {"queued"}) = 0 /\ Ind(at'[h], {"queued"}) = 0
    BY <1>3, <1>4 DEF Ind
  <2> QED
    BY <1>1, <1>2, <2>2, <2>3 DEF Fifo
<1> QED
  BY <1>2, <1>3, <1>4, <1>5, <1>6, <1>7 DEF Fifo

LEMMA PlaceSets ==
  /\ Claims \in SUBSET Arrived /\ Waits \in SUBSET Arrived /\ Owed \in SUBSET Arrived
  /\ {"queued"} \in SUBSET Arrived /\ {"woken"} \in SUBSET Arrived
  /\ Arrived \in SUBSET Places
BY DEF Claims, Waits, Owed, Arrived, Places, Holds, Ended

(* A call moves, and nobody is woken.                                      *)
LEMMA MovedAlone ==
  ASSUME SlotBook, NEW c \in Call, at[c] # "queued", NEW x \in Arrived \ Waits,
         at' = [at EXCEPT ![c] = x], UNCHANGED <<slots, queue>>,
         free' \in Nat, free' + Ind(x, Claims) = free + Ind(at[c], Claims),
         free' > 0 /\ queue # <<>> => free > 0 /\ at[c] # "woken"
  PROVE  SlotBook'
<1>1. /\ slots \in Nat /\ free \in Nat
      /\ at \in [Call -> Places]
      /\ Fifo
      /\ free + Cardinality(In(Claims)) = slots
      /\ free > 0 /\ queue # <<>> => In({"woken"}) # {}
      /\ Cardinality(In(Waits)) <= QueueDepth
  BY DEF SlotBook
<1>2. /\ at' \in [Call -> Places] /\ at'[c] = x
      /\ \A d \in Call \ {c} : at'[d] = at[d]
  BY <1>1, PlaceSets
<1>3. /\ IsFiniteSet(In(Arrived)')
      /\ \A P \in SUBSET Arrived :
           /\ Cardinality(In(P)) \in Nat /\ Cardinality(In(P)') \in Nat
           /\ Cardinality(In(P)') + Ind(at[c], P) = Cardinality(In(P)) + Ind(at'[c], P)
  BY <1>2, OneMove
<1>4. \A z, P : Ind(z, P) \in Nat
  BY DEF Ind
<1>5. Fifo'
  <2>1. In({"queued"})' = In({"queued"})
    BY <1>2 DEF In, Waits
  <2> QED
    BY <1>1, <2>1, FifoKept
<1>6. free' + Cardinality(In(Claims)') = slots'
  <2>1. /\ Cardinality(In(Claims)) \in Nat /\ Cardinality(In(Claims)') \in Nat
        /\ Cardinality(In(Claims)') + Ind(at[c], Claims) = Cardinality(In(Claims)) + Ind(x, Claims)
    BY <1>2, <1>3, PlaceSets
  <2> QED
    BY <1>1, <1>4, <2>1
<1>7. Cardinality(In(Waits)') <= QueueDepth
  <2>1. Ind(at'[c], Waits) = 0
    BY <1>2 DEF Ind
  <2>2. /\ Cardinality(In(Waits)) \in Nat /\ Cardinality(In(Waits)') \in Nat
        /\ Cardinality(In(Waits)') + Ind(at[c], Waits) = Cardinality(In(Waits)) + Ind(at'[c], Waits)
    BY <1>3, PlaceSets
  <2>3. QueueDepth \in Nat /\ Ind(at[c], Waits) \in Nat
    BY <1>4, Positive
  <2> QED
    BY <1>1, <2>1, <2>2, <2>3
<1>8. ASSUME free' > 0, queue' # <<>>
      PROVE  In({"woken"})' # {}
  <2>1. PICK d \in Call : at[d] = "woken" /\ d # c
    BY <1>1, <1>8 DEF In
  <2> QED
    BY <1>2, <2>1 DEF In
<1> QED
  BY <1>1, <1>2, <1>3, <1>5, <1>6, <1>7, <1>8 DEF SlotBook

(* A call that has a slot moves, and wakes the head of the queue.          *)
LEMMA MovedWaking ==
  ASSUME SlotBook, queue # <<>>, NEW c \in Call, at[c] \in Claims,
         NEW x \in Arrived \ Waits,
         at' = [at EXCEPT ![c] = x, ![Head(queue)] = "woken"],
         queue' = Tail(queue), UNCHANGED slots,
         free' \in Nat, free' + Ind(x, Claims) = free
  PROVE  SlotBook'
<1>1. /\ slots \in Nat /\ free \in Nat
      /\ at \in [Call -> Places]
      /\ free + Cardinality(In(Claims)) = slots
      /\ Cardinality(In(Waits)) <= QueueDepth
  BY DEF SlotBook
<1>2. x \in Arrived \ {"queued"} /\ at[c] # "queued"
  BY DEF Waits, Claims, Holds
<1>3. /\ Fifo'
      /\ at' \in [Call -> Places] /\ at'[c] = x
      /\ \E h \in Call \ {c} :
           /\ at[h] = "queued" /\ at'[h] = "woken"
           /\ \A d \in Call \ {c, h} : at'[d] = at[d]
  BY <1>2, FifoTail
<1>4. PICK h \in Call : /\ h # c /\ at[h] = "queued" /\ at'[h] = "woken"
                       /\ \A d \in Call \ {c, h} : at'[d] = at[d]
  BY <1>3
<1>5. /\ IsFiniteSet(In(Arrived)')
      /\ \A P \in SUBSET Arrived :
           /\ Cardinality(In(P)) \in Nat /\ Cardinality(In(P)') \in Nat
           /\ Cardinality(In(P)') + Ind(at[c], P) + Ind(at[h], P)
                = Cardinality(In(P)) + Ind(at'[c], P) + Ind(at'[h], P)
  BY <1>3, <1>4, TwoMoves
<1>6. \A z, P : Ind(z, P) \in Nat
  BY DEF Ind
<1>7. free' + Cardinality(In(Claims)') = slots'
  <2>1. /\ Ind(at[c], Claims) = 1 /\ Ind(at[h], Claims) = 0
        /\ Ind(at'[c], Claims) = Ind(x, Claims) /\ Ind(at'[h], Claims) = 1
    BY <1>3, <1>4 DEF Ind, Claims, Holds
  <2>2. /\ Cardinality(In(Claims)) \in Nat /\ Cardinality(In(Claims)') \in Nat
        /\ Cardinality(In(Claims)') + Ind(at[c], Claims) + Ind(at[h], Claims)
             = Cardinality(In(Claims)) + Ind(at'[c], Claims) + Ind(at'[h], Claims)
    BY <1>5, PlaceSets
  <2>3. Ind(x, Claims) \in Nat
    BY <1>6
  <2>4. Cardinality(In(Claims)') = Cardinality(In(Claims)) + Ind(x, Claims)
    BY <2>1, <2>2, <2>3
  <2>5. free + Cardinality(In(Claims)) = slots /\ free \in Nat
    BY <1>1
  <2> QED
    BY <2>2, <2>3, <2>4, <2>5
<1>8. Cardinality(In(Waits)') <= QueueDepth
  <2>1. /\ Ind(at[h], Waits) = 1 /\ Ind(at'[c], Waits) = 0 /\ Ind(at'[h], Waits) = 1
    BY <1>3, <1>4 DEF Ind, Waits
  <2>2. /\ Cardinality(In(Waits)) \in Nat /\ Cardinality(In(Waits)') \in Nat
        /\ Cardinality(In(Waits)') + Ind(at[c], Waits) + Ind(at[h], Waits)
             = Cardinality(In(Waits)) + Ind(at'[c], Waits) + Ind(at'[h], Waits)
    BY <1>5, PlaceSets
  <2>3. QueueDepth \in Nat /\ Ind(at[c], Waits) \in Nat
    BY <1>6, Positive
  <2> QED
    BY <1>1, <2>1, <2>2, <2>3
<1>9. In({"woken"})' # {}
  BY <1>4 DEF In
<1> QED
  BY <1>1, <1>3, <1>5, <1>7, <1>8, <1>9 DEF SlotBook

(* A new call joins the queue.                                             *)
LEMMA MovedToQueue ==
  ASSUME SlotBook, NEW c \in Call, at[c] = "new", ~QueueFull, ~SlotAtOnce,
         at' = [at EXCEPT ![c] = "queued"], queue' = Append(queue, c), UNCHANGED <<slots, free>>
  PROVE  SlotBook'
<1>1. /\ slots \in Nat /\ free \in Nat
      /\ at \in [Call -> Places]
      /\ Fifo
      /\ free + Cardinality(In(Claims)) = slots
      /\ free > 0 /\ queue # <<>> => In({"woken"}) # {}
  BY DEF SlotBook
<1>2. Fifo'
  BY FifoAppend
<1>3. /\ at' \in [Call -> Places] /\ at'[c] = "queued"
      /\ \A d \in Call \ {c} : at'[d] = at[d]
  BY <1>1, PlaceSets
<1>4. /\ IsFiniteSet(In(Arrived)')
      /\ \A P \in SUBSET Arrived :
           /\ Cardinality(In(P)) \in Nat /\ Cardinality(In(P)') \in Nat
           /\ Cardinality(In(P)') + Ind(at[c], P) = Cardinality(In(P)) + Ind(at'[c], P)
  BY <1>3, OneMove
<1>5. free' + Cardinality(In(Claims)') = slots'
  <2>1. Ind(at[c], Claims) = 0 /\ Ind(at'[c], Claims) = 0
    BY <1>3 DEF Ind, Claims, Holds
  <2>2. /\ Cardinality(In(Claims)) \in Nat /\ Cardinality(In(Claims)') \in Nat
        /\ Cardinality(In(Claims)') + Ind(at[c], Claims) = Cardinality(In(Claims)) + Ind(at'[c], Claims)
    BY <1>4, PlaceSets
  <2> QED
    BY <1>1, <2>1, <2>2
<1>6. Cardinality(In(Waits)') <= QueueDepth
  <2>1. Ind(at[c], Waits) = 0 /\ Ind(at'[c], Waits) = 1
    BY <1>3 DEF Ind, Waits
  <2>2. /\ Cardinality(In(Waits)) \in Nat /\ Cardinality(In(Waits)') \in Nat
        /\ Cardinality(In(Waits)') + Ind(at[c], Waits) = Cardinality(In(Waits)) + Ind(at'[c], Waits)
    BY <1>4, PlaceSets
  <2>3. QueueDepth \in Nat /\ ~(Cardinality(In(Waits)) >= QueueDepth)
    BY Positive DEF QueueFull
  <2> QED
    BY <2>1, <2>2, <2>3
<1>7. ASSUME free' > 0
      PROVE  In({"woken"})' # {}
  <2>1. PICK d \in Call : at[d] \in Waits
    BY <1>7 DEF SlotAtOnce, In
  <2>2. PICK e \in Call : at[e] = "woken"
    <3>1. CASE at[d] = "queued"
      <4>1. queue # <<>>
        BY <1>1, <3>1, EmptySeq DEF Fifo
      <4> QED
        BY <1>1, <1>7, <4>1 DEF In
    <3> QED
      BY <2>1, <3>1 DEF Waits
  <2> QED
    BY <1>3, <2>2 DEF In
<1> QED
  BY <1>1, <1>2, <1>3, <1>4, <1>5, <1>6, <1>7 DEF SlotBook

(* With one slot, one call at most has it.                                 *)
LEMMA Alone ==
  ASSUME SlotBook, slots = 1, NEW c \in In(Claims)
  PROVE  free = 0 /\ \A d \in In(Claims) : d = c
<1>1. IsFiniteSet(In(Claims)) /\ Cardinality(In(Claims)) \in Nat
  <2>1. In(Claims) \in SUBSET In(Arrived) /\ IsFiniteSet(In(Arrived))
    BY PlaceSets DEF SlotBook, In
  <2> QED
    BY <2>1, FS_Subset, FS_CardinalityType
<1>2. free \in Nat /\ free + Cardinality(In(Claims)) = 1
  BY DEF SlotBook
<1>3. Cardinality(In(Claims)) # 0
  BY <1>1, FS_EmptySet
<1>4. Cardinality(In(Claims)) = 1 /\ free = 0
  BY <1>1, <1>2, <1>3
<1>5. \E z : In(Claims) = {z}
  BY <1>1, <1>4, FS_Singleton
<1> QED
  BY <1>4, <1>5

-----------------------------------------------------------------------------
(* The token budget.                                                       *)

LEMMA RungType == \A total : Rung(total) \in 0 .. 2
BY DEF Rung

LEMMA BudgetKept ==
  ASSUME BudgetBook, UNCHANGED <<reserved, spent, level>>,
         Cardinality(In(Owed)') = Cardinality(In(Owed))
  PROVE  BudgetBook'
BY DEF BudgetBook

LEMMA BudgetReserved ==
  ASSUME BudgetBook, Reserve, Cardinality(In(Owed)) \in Nat,
         Cardinality(In(Owed)') = Cardinality(In(Owed)) + 1
  PROVE  BudgetBook'
<1>1. Estimate \in Nat /\ reserved \in Nat /\ spent \in Nat /\ level \in 0 .. 2
  BY Positive DEF BudgetBook
<1>2. \A n \in Nat : Estimate * (n + 1) = Estimate * n + Estimate
  BY <1>1
<1>3. reserved' = Estimate * Cardinality(In(Owed)') /\ reserved' \in Nat
  BY <1>1, <1>2 DEF BudgetBook, Reserve
<1>4. reserved' = reserved + Estimate /\ spent' = spent
  BY DEF Reserve
<1>5. spent' + reserved' = spent + reserved + Estimate
  BY <1>1, <1>4
<1>6. level' >= Rung(spent' + reserved') /\ level' \in 0 .. 2
  <2>1. Rung(spent + reserved + Estimate) \in 0 .. 2
    BY RungType
  <2>2. level' = IF Rung(spent + reserved + Estimate) > level
                 THEN Rung(spent + reserved + Estimate) ELSE level
    BY DEF Reserve, Advance
  <2> QED
    BY <1>1, <1>5, <2>1, <2>2
<1> QED
  BY <1>1, <1>3, <1>4, <1>6 DEF BudgetBook

LEMMA BudgetSettled ==
  ASSUME BudgetBook, NEW used \in Usage, Settle(used), Cardinality(In(Owed)') \in Nat,
         Cardinality(In(Owed)) = Cardinality(In(Owed)') + 1
  PROVE  BudgetBook'
<1> DEFINE left == IF reserved > Estimate THEN reserved - Estimate ELSE 0
<1>1. /\ Estimate \in Nat /\ reserved \in Nat /\ spent \in Nat /\ level \in 0 .. 2
      /\ used \in Nat
  BY Positive DEF BudgetBook
<1>2. \A n \in Nat : Estimate * (n + 1) = Estimate * n + Estimate /\ Estimate * n \in Nat
  BY <1>1
<1>3. left = Estimate * Cardinality(In(Owed)') /\ left \in Nat
  <2>1. PICK m \in Nat : m = Estimate * Cardinality(In(Owed)')
    BY <1>2
  <2>2. reserved = m + Estimate
    BY <1>2, <2>1 DEF BudgetBook
  <2> QED
    BY <1>1, <2>1, <2>2
<1>4. reserved' = left /\ spent' = spent + used /\ Advance(spent + used + left)
  BY DEF Settle
<1> HIDE DEF left
<1>5. level' >= Rung(spent' + reserved') /\ level' \in 0 .. 2
  <2>1. Rung(spent + used + left) \in 0 .. 2
    BY RungType
  <2>2. level' = IF Rung(spent + used + left) > level THEN Rung(spent + used + left) ELSE level
    BY <1>4 DEF Advance
  <2> QED
    BY <1>1, <1>4, <2>1, <2>2
<1>6. spent' \in Nat
  BY <1>1, <1>4
<1> QED
  BY <1>3, <1>4, <1>5, <1>6 DEF BudgetBook

-----------------------------------------------------------------------------
(* The bucket and the timers.                                              *)

LEMMA BucketSizes ==
  /\ Full \in Nat /\ TokenTicks \in Nat /\ TokenTicks > 0 /\ Full >= TokenTicks
  /\ Timeout \in Nat /\ Backoff \in Nat /\ Retries \in Nat
<1>1. /\ TokenTicks \in Nat \ {0} /\ Capacity \in Nat \ {0}
      /\ Timeout \in Nat /\ Backoff \in Nat /\ Retries \in Nat
  BY Positive
<1>2. PICK k \in Nat : Capacity = k + 1
  <2>1. Capacity - 1 \in Nat /\ Capacity = (Capacity - 1) + 1
    BY <1>1
  <2> QED
    BY <2>1
<1>3. (k + 1) * TokenTicks = k * TokenTicks + TokenTicks /\ k * TokenTicks \in Nat
  BY <1>1
<1> QED
  BY <1>1, <1>2, <1>3 DEF Full

(* Nothing is drawn from the bucket; c is set a timer, or nobody is.       *)
LEMMA NotDrawn ==
  ASSUME BucketBook, UNCHANGED <<slots, bucket, allowance>>,
         attempts' \in [Call -> 0 .. Retries],
         NEW c \in Call, NEW t \in Nat, timer' \in {timer, [timer EXCEPT ![c] = t]},
         \A d \in In({"pacing"})' : d \in In({"pacing"}) /\ d # c
  PROVE  BucketBook'
<1>1. timer' \in [Call -> Nat] /\ \A d \in Call \ {c} : timer'[d] = timer[d]
  BY DEF BucketBook
<1>2. \A d \in In({"pacing"})' : bucket' = bucket /\ timer'[d] = timer[d]
  BY <1>1 DEF In
<1> QED
  BY <1>1, <1>2 DEF BucketBook

(* c draws a token, or goes to sleep until there is one.                   *)
LEMMA Drawn ==
  ASSUME BucketBook, NEW c \in Call, Pace(c), UNCHANGED <<slots, attempts>>, at'[c] = PacedTo,
         slots = 1 => \A d \in In({"pacing"})' : d = c
  PROVE  BucketBook'
<1>1. /\ bucket \in 0 .. Full /\ timer \in [Call -> Nat] /\ attempts \in [Call -> 0 .. Retries]
      /\ allowance \in Int /\ allowance <= Full
      /\ slots = 1 => allowance = bucket
  BY DEF BucketBook
<1>2. CASE bucket >= TokenTicks
  <2>1. /\ bucket' = bucket - TokenTicks /\ allowance' = allowance - TokenTicks
        /\ timer' = [timer EXCEPT ![c] = Timeout]
    BY <1>2 DEF Pace, Launch
  <2>2. slots' = 1 => In({"pacing"})' = {}
    BY <1>2 DEF PacedTo, In
  <2>3. timer' \in [Call -> Nat]
    BY <1>1, <2>1, BucketSizes
  <2> QED
    BY <1>1, <1>2, <2>1, <2>2, <2>3, BucketSizes DEF BucketBook
<1>3. CASE ~(bucket >= TokenTicks)
  <2>1. bucket' = bucket /\ allowance' = allowance /\ timer' = [timer EXCEPT ![c] = TokenTicks - bucket]
    BY <1>3 DEF Pace
  <2>2. TokenTicks - bucket \in Nat
    BY <1>1, <1>3, BucketSizes
  <2>3. timer' \in [Call -> Nat] /\ timer'[c] = TokenTicks - bucket
    BY <1>1, <2>1, <2>2
  <2>4. bucket' + timer'[c] >= TokenTicks
    BY <1>1, <2>1, <2>3, BucketSizes
  <2> QED
    BY <1>1, <2>1, <2>3, <2>4 DEF BucketBook
<1> QED
  BY <1>2, <1>3

(* c wakes from the sleep for a token: alone, it finds one.                *)
LEMMA DrawnLate ==
  ASSUME BucketBook, NEW c \in Call, at[c] = "pacing", timer[c] = 0, Launch(c),
         bucket' = IF bucket >= TokenTicks THEN bucket - TokenTicks ELSE bucket,
         UNCHANGED <<slots, attempts>>, slots = 1 => In({"pacing"})' = {}
  PROVE  BucketBook'
<1>1. /\ bucket \in 0 .. Full /\ timer \in [Call -> Nat] /\ attempts \in [Call -> 0 .. Retries]
      /\ allowance \in Int /\ allowance <= Full
      /\ slots = 1 => allowance = bucket /\ bucket + timer[c] >= TokenTicks
  BY DEF BucketBook, In
<1>2. timer' = [timer EXCEPT ![c] = Timeout] /\ allowance' = allowance - TokenTicks
  BY DEF Launch
<1>3. timer' \in [Call -> Nat]
  BY <1>1, <1>2, BucketSizes
<1>4. bucket' \in 0 .. Full /\ allowance' \in Int /\ allowance' <= Full
  BY <1>1, <1>2, BucketSizes
<1>5. slots' = 1 => allowance' = bucket'
  BY <1>1, <1>2, BucketSizes
<1> QED
  BY <1>1, <1>3, <1>4, <1>5 DEF BucketBook

LEMMA BucketTicks ==
  ASSUME BucketBook, Tick
  PROVE  BucketBook'
<1>1. /\ bucket \in 0 .. Full /\ timer \in [Call -> Nat] /\ attempts \in [Call -> 0 .. Retries]
      /\ allowance \in Int /\ allowance <= Full
      /\ slots = 1 => /\ allowance = bucket
                      /\ \A c \in In({"pacing"}) : bucket + timer[c] >= TokenTicks
  BY DEF BucketBook
<1>2. /\ bucket' = IF bucket < Full THEN bucket + 1 ELSE bucket
      /\ allowance' = IF allowance < Full THEN allowance + 1 ELSE allowance
      /\ timer' = [c \in Call |-> IF timer[c] > 0 THEN timer[c] - 1 ELSE 0]
      /\ UNCHANGED <<slots, attempts, at>>
  BY DEF Tick
<1>3. timer' \in [Call -> Nat] /\ \A c \in Call : timer'[c] = IF timer[c] > 0 THEN timer[c] - 1 ELSE 0
  BY <1>1, <1>2
<1>4. bucket' \in 0 .. Full /\ allowance' \in Int /\ allowance' <= Full
  BY <1>1, <1>2, BucketSizes
<1>5. ASSUME slots' = 1
      PROVE  allowance' = bucket' /\ \A c \in In({"pacing"})' : bucket' + timer'[c] >= TokenTicks
  <2>1. allowance' = bucket'
    BY <1>1, <1>2, <1>5
  <2>2. ASSUME NEW c \in Call, at'[c] = "pacing"
        PROVE  bucket' + timer'[c] >= TokenTicks
    <3>1. bucket + timer[c] >= TokenTicks /\ timer[c] \in Nat
      BY <1>1, <1>2, <1>5, <2>2 DEF In
    <3> QED
      BY <1>1, <1>2, <1>3, <3>1, BucketSizes
  <2> QED
    BY <2>1, <2>2 DEF In
<1> QED
  BY <1>1, <1>2, <1>3, <1>4, <1>5 DEF BucketBook

-----------------------------------------------------------------------------
(* What the movements mean to the other two books: how many calls are      *)
(* reserved for, and which of them sleep for a token.                      *)

LEMMA OwedAlone ==
  ASSUME SlotBook, NEW c \in Call, NEW x \in Arrived, at' = [at EXCEPT ![c] = x]
  PROVE  /\ Cardinality(In(Owed)) \in Nat /\ Cardinality(In(Owed)') \in Nat
         /\ Cardinality(In(Owed)') + Ind(at[c], Owed) = Cardinality(In(Owed)) + Ind(x, Owed)
         /\ at'[c] = x /\ \A d \in Call \ {c} : at'[d] = at[d]
<1>1. /\ at' \in [Call -> Places] /\ at'[c] = x
      /\ \A d \in Call \ {c} : at'[d] = at[d]
  BY PlaceSets DEF SlotBook
<1>2. \A P \in SUBSET Arrived :
        /\ Cardinality(In(P)) \in Nat /\ Cardinality(In(P)') \in Nat
        /\ Cardinality(In(P)') + Ind(at[c], P) = Cardinality(In(P)) + Ind(at'[c], P)
  BY <1>1, OneMove
<1> QED
  BY <1>1, <1>2, PlaceSets

LEMMA OwedWaking ==
  ASSUME SlotBook, queue # <<>>, NEW c \in Call, at[c] \in Claims,
         NEW x \in Arrived \ Waits,
         at' = [at EXCEPT ![c] = x, ![Head(queue)] = "woken"], queue' = Tail(queue)
  PROVE  /\ Cardinality(In(Owed)) \in Nat /\ Cardinality(In(Owed)') \in Nat
         /\ Cardinality(In(Owed)') + Ind(at[c], Owed) = Cardinality(In(Owed)) + Ind(x, Owed)
         /\ at'[c] = x /\ \A d \in Call \ {c} : at'[d] \in {at[d], "woken"}
<1>1. x \in Arrived \ {"queued"} /\ at[c] # "queued"
  BY DEF Waits, Claims, Holds
<1>2. /\ at' \in [Call -> Places] /\ at'[c] = x
      /\ \E h \in Call \ {c} :
           /\ at[h] = "queued" /\ at'[h] = "woken"
           /\ \A d \in Call \ {c, h} : at'[d] = at[d]
  BY <1>1, FifoTail
<1>3. PICK h \in Call : /\ h # c /\ at[h] = "queued" /\ at'[h] = "woken"
                       /\ \A d \in Call \ {c, h} : at'[d] = at[d]
  BY <1>2
<1>4. \A P \in SUBSET Arrived :
        /\ Cardinality(In(P)) \in Nat /\ Cardinality(In(P)') \in Nat
        /\ Cardinality(In(P)') + Ind(at[c], P) + Ind(at[h], P)
             = Cardinality(In(P)) + Ind(at'[c], P) + Ind(at'[h], P)
  BY <1>2, <1>3, TwoMoves
<1>5. Ind(at[h], Owed) = 1 /\ Ind(at'[h], Owed) = 1 /\ Ind(at[c], Owed) \in Nat /\ Ind(x, Owed) \in Nat
  BY <1>3 DEF Ind, Owed
<1>6. /\ Cardinality(In(Owed)) \in Nat /\ Cardinality(In(Owed)') \in Nat
      /\ Cardinality(In(Owed)') + Ind(at[c], Owed) + Ind(at[h], Owed)
           = Cardinality(In(Owed)) + Ind(x, Owed) + Ind(at'[h], Owed)
  BY <1>2, <1>4, PlaceSets
<1> QED
  BY <1>2, <1>3, <1>5, <1>6

-----------------------------------------------------------------------------
(* The actions, one by one.                                                *)

LEMMA SubmitKeeps ==
  ASSUME GInv, NEW c \in Call, Submit(c)
  PROVE  GInv'
<1>1. SlotBook /\ BudgetBook /\ BucketBook /\ at[c] = "new" /\ Reserve
      /\ UNCHANGED <<slots, attempts>>
  BY DEF GInv, Submit
<1>2. at[c] # "queued" /\ Ind(at[c], Claims) = 0 /\ Ind(at[c], Owed) = 0 /\ free \in Nat
  BY <1>1 DEF Ind, Claims, Owed, Holds, SlotBook
<1>3. attempts' \in [Call -> 0 .. Retries]
  BY <1>1 DEF BucketBook
<1>4. CASE QueueFull
  <2>1. at' = [at EXCEPT ![c] = "overflow"] /\ UNCHANGED <<queue, free, bucket, timer, allowance>>
    BY <1>4 DEF Submit
  <2>2. "overflow" \in Arrived \ Waits /\ Ind("overflow", Claims) = 0 /\ Ind("overflow", Owed) = 1
    BY DEF Arrived, Waits, Ended, Ind, Claims, Owed, Holds
  <2>3. SlotBook'
    BY <1>1, <1>2, <2>1, <2>2, MovedAlone
  <2>4. /\ Cardinality(In(Owed)) \in Nat /\ Cardinality(In(Owed)') \in Nat
        /\ Cardinality(In(Owed)') + Ind(at[c], Owed) = Cardinality(In(Owed)) + Ind("overflow", Owed)
        /\ at'[c] = "overflow" /\ \A d \in Call \ {c} : at'[d] = at[d]
    BY <1>1, <2>1, <2>2, OwedAlone
  <2>5. BudgetBook'
    BY <1>1, <1>2, <2>2, <2>4, BudgetReserved
  <2>6. \A d \in In({"pacing"})' : d \in In({"pacing"}) /\ d # c
    BY <2>4 DEF In
  <2>7. BucketBook'
    BY <1>1, <1>3, <2>1, <2>6, NotDrawn
  <2> QED
    BY <1>1, <2>3, <2>5, <2>7 DEF GInv
<1>5. CASE ~QueueFull /\ SlotAtOnce
  <2>1. PICK x \in {"running", "pacing"} : x = PacedTo
    BY DEF PacedTo
  <2>2. at' = [at EXCEPT ![c] = x] /\ free' = free - 1 /\ free > 0 /\ Pace(c) /\ UNCHANGED queue
    BY <1>5, <2>1 DEF Submit, SlotAtOnce
  <2>3. x \in Arrived \ Waits /\ Ind(x, Claims) = 1 /\ Ind(x, Owed) = 1
    BY DEF Arrived, Waits, Ind, Claims, Owed, Holds
  <2>4. free' \in Nat /\ free' + Ind(x, Claims) = free + Ind(at[c], Claims) /\ at[c] # "woken"
    BY <1>1, <1>2, <2>2, <2>3
  <2>5. SlotBook'
    BY <1>1, <1>2, <2>2, <2>3, <2>4, MovedAlone
  <2>6. /\ Cardinality(In(Owed)) \in Nat /\ Cardinality(In(Owed)') \in Nat
        /\ Cardinality(In(Owed)') + Ind(at[c], Owed) = Cardinality(In(Owed)) + Ind(x, Owed)
        /\ at'[c] = x /\ \A d \in Call \ {c} : at'[d] = at[d]
    BY <1>1, <2>2, <2>3, OwedAlone
  <2>7. BudgetBook'
    BY <1>1, <1>2, <2>3, <2>6, BudgetReserved
  <2>8. slots = 1 => \A d \in In({"pacing"})' : d = c
    <3>1. ASSUME slots = 1, NEW d \in Call \ {c}, at'[d] = "pacing"
          PROVE  FALSE
      <4>1. d \in In(Claims)
        BY <2>6, <3>1 DEF In, Claims, Holds
      <4> QED
        BY <1>1, <2>2, <3>1, <4>1, Alone
    <3> QED
      BY <3>1 DEF In
  <2>9. BucketBook'
    <3>1. at'[c] = PacedTo
      BY <2>1, <2>6
    <3> QED
      BY <1>1, <2>2, <2>8, <3>1, Drawn
  <2> QED
    BY <1>1, <2>5, <2>7, <2>9 DEF GInv
<1>6. CASE ~QueueFull /\ ~SlotAtOnce
  <2>1. /\ at' = [at EXCEPT ![c] = "queued"] /\ queue' = Append(queue, c)
        /\ UNCHANGED <<free, bucket, timer, allowance>>
    BY <1>6 DEF Submit
  <2>2. "queued" \in Arrived /\ Ind("queued", Owed) = 1
    BY DEF Arrived, Waits, Ind, Owed
  <2>3. SlotBook'
    BY <1>1, <1>6, <2>1, MovedToQueue
  <2>4. /\ Cardinality(In(Owed)) \in Nat /\ Cardinality(In(Owed)') \in Nat
        /\ Cardinality(In(Owed)') + Ind(at[c], Owed) = Cardinality(In(Owed)) + Ind("queued", Owed)
        /\ at'[c] = "queued" /\ \A d \in Call \ {c} : at'[d] = at[d]
    BY <1>1, <2>1, <2>2, OwedAlone
  <2>5. BudgetBook'
    BY <1>1, <1>2, <2>2, <2>4, BudgetReserved
  <2>6. \A d \in In({"pacing"})' : d \in In({"pacing"}) /\ d # c
    BY <2>4 DEF In
  <2>7. BucketBook'
    BY <1>1, <1>3, <2>1, <2>6, NotDrawn
  <2> QED
    BY <1>1, <2>3, <2>5, <2>7 DEF GInv
<1> QED
  BY <1>4, <1>5, <1>6

LEMMA ResumeKeeps ==
  ASSUME GInv, NEW c \in Call, Resume(c)
  PROVE  GInv'
<1>1. /\ SlotBook /\ BudgetBook /\ BucketBook /\ at[c] = "woken" /\ Pace(c)
      /\ UNCHANGED <<slots, attempts, reserved, spent, level>>
  BY DEF GInv, Resume
<1>2. PICK x \in {"running", "pacing"} : x = PacedTo
  BY DEF PacedTo
<1>3. /\ x \in Arrived \ Waits /\ Ind(x, Claims) = 1 /\ Ind(x, Owed) = 1
      /\ at[c] # "queued" /\ at[c] \in Claims /\ Ind(at[c], Claims) = 1 /\ Ind(at[c], Owed) = 1
  BY <1>1 DEF Arrived, Waits, Ind, Claims, Owed, Holds
<1>4. free \in Nat
  BY <1>1 DEF SlotBook
<1>5. /\ SlotBook'
      /\ Cardinality(In(Owed)') = Cardinality(In(Owed))
      /\ at'[c] = x /\ \A d \in Call \ {c} : at'[d] \in {at[d], "woken"}
  <2>1. CASE free > 0 /\ queue # <<>>
    <3>1. /\ at' = [at EXCEPT ![c] = x, ![Head(queue)] = "woken"]
          /\ queue' = Tail(queue) /\ free' = free - 1
      BY <1>2, <2>1 DEF Resume
    <3>2. free' \in Nat /\ free' + Ind(x, Claims) = free
      BY <1>3, <1>4, <2>1, <3>1
    <3>3. SlotBook'
      BY <1>1, <1>3, <2>1, <3>1, <3>2, MovedWaking
    <3>4. /\ Cardinality(In(Owed)) \in Nat /\ Cardinality(In(Owed)') \in Nat
          /\ Cardinality(In(Owed)') + Ind(at[c], Owed) = Cardinality(In(Owed)) + Ind(x, Owed)
          /\ at'[c] = x /\ \A d \in Call \ {c} : at'[d] \in {at[d], "woken"}
      BY <1>1, <1>3, <2>1, <3>1, OwedWaking
    <3> QED
      BY <1>3, <3>3, <3>4
  <2>2. CASE ~(free > 0 /\ queue # <<>>)
    <3>1. at' = [at EXCEPT ![c] = x] /\ UNCHANGED <<queue, free>>
      BY <1>2, <2>2 DEF Resume
    <3>2. SlotBook'
      BY <1>1, <1>3, <1>4, <2>2, <3>1, MovedAlone
    <3>3. /\ Cardinality(In(Owed)) \in Nat /\ Cardinality(In(Owed)') \in Nat
          /\ Cardinality(In(Owed)') + Ind(at[c], Owed) = Cardinality(In(Owed)) + Ind(x, Owed)
          /\ at'[c] = x /\ \A d \in Call \ {c} : at'[d] = at[d]
      BY <1>1, <1>3, <3>1, OwedAlone
    <3> QED
      BY <1>3, <3>2, <3>3
  <2> QED
    BY <2>1, <2>2
<1>6. BudgetBook'
  BY <1>1, <1>5, BudgetKept
<1>7. slots = 1 => \A d \in In({"pacing"})' : d = c
  <2>1. ASSUME slots = 1, NEW d \in Call \ {c}, at'[d] = "pacing"
        PROVE  FALSE
    <3>1. d \in In(Claims) /\ c \in In(Claims)
      BY <1>3, <1>5, <2>1 DEF In, Claims, Holds
    <3> QED
      BY <1>1, <2>1, <3>1, Alone
  <2> QED
    BY <2>1 DEF In
<1>8. BucketBook'
  <2>1. at'[c] = PacedTo
    BY <1>2, <1>5
  <2> QED
    BY <1>1, <1>7, <2>1, Drawn
<1> QED
  BY <1>1, <1>5, <1>6, <1>8 DEF GInv

(* A call that has a slot keeps it.                                        *)
LEMMA KeepsSlot ==
  ASSUME SlotBook, BudgetBook, NEW c \in Call, at[c] \in Holds, NEW x \in Holds,
         at' = [at EXCEPT ![c] = x], UNCHANGED <<slots, queue, free, reserved, spent, level>>
  PROVE  /\ SlotBook' /\ BudgetBook'
         /\ at'[c] = x /\ \A d \in Call \ {c} : at'[d] = at[d]
         /\ slots = 1 => \A d \in In({"pacing"})' : d = c
<1>1. /\ x \in Arrived \ Waits /\ Ind(x, Claims) = 1 /\ Ind(x, Owed) = 1
      /\ at[c] # "queued" /\ at[c] # "woken" /\ Ind(at[c], Claims) = 1 /\ Ind(at[c], Owed) = 1
  BY DEF Arrived, Waits, Ind, Claims, Owed, Holds
<1>2. free \in Nat
  BY DEF SlotBook
<1>3. SlotBook'
  BY <1>1, <1>2, MovedAlone
<1>4. /\ Cardinality(In(Owed)) \in Nat /\ Cardinality(In(Owed)') \in Nat
      /\ Cardinality(In(Owed)') + Ind(at[c], Owed) = Cardinality(In(Owed)) + Ind(x, Owed)
      /\ at'[c] = x /\ \A d \in Call \ {c} : at'[d] = at[d]
  BY <1>1, OwedAlone
<1>5. Cardinality(In(Owed)') = Cardinality(In(Owed))
  BY <1>1, <1>4
<1>6. BudgetBook'
  BY <1>5, BudgetKept
<1>7. ASSUME slots = 1, NEW d \in Call \ {c}, at'[d] = "pacing"
      PROVE  FALSE
  <2>1. d \in In(Claims) /\ c \in In(Claims)
    BY <1>4, <1>7 DEF In, Claims, Holds
  <2> QED
    BY <1>7, <2>1, Alone
<1> QED
  BY <1>3, <1>4, <1>6, <1>7 DEF In

LEMMA PaceOverKeeps ==
  ASSUME GInv, NEW c \in Call, PaceOver(c)
  PROVE  GInv'
<1>1. /\ SlotBook /\ BudgetBook /\ BucketBook
      /\ at[c] = "pacing" /\ timer[c] = 0 /\ Launch(c)
      /\ at' = [at EXCEPT ![c] = "running"]
      /\ bucket' = IF bucket >= TokenTicks THEN bucket - TokenTicks ELSE bucket
      /\ UNCHANGED <<slots, queue, free, attempts, reserved, spent, level>>
  BY DEF GInv, PaceOver
<1>2. /\ SlotBook' /\ BudgetBook'
      /\ at'[c] = "running" /\ \A d \in Call \ {c} : at'[d] = at[d]
      /\ slots = 1 => \A d \in In({"pacing"})' : d = c
  <2>1. at[c] \in Holds /\ "running" \in Holds
    BY <1>1 DEF Holds
  <2> QED
    BY <1>1, <2>1, KeepsSlot
<1>3. slots = 1 => In({"pacing"})' = {}
  BY <1>2 DEF In
<1>4. BucketBook'
  BY <1>1, <1>3, DrawnLate
<1> QED
  BY <1>1, <1>2, <1>4 DEF GInv

LEMMA BackoffOverKeeps ==
  ASSUME GInv, NEW c \in Call, BackoffOver(c)
  PROVE  GInv'
<1>1. /\ SlotBook /\ BudgetBook /\ BucketBook /\ at[c] = "backoff" /\ Pace(c)
      /\ UNCHANGED <<slots, queue, free, attempts, reserved, spent, level>>
  BY DEF GInv, BackoffOver
<1>2. PICK x \in {"running", "pacing"} : x = PacedTo
  BY DEF PacedTo
<1>3. at' = [at EXCEPT ![c] = x] /\ at[c] \in Holds /\ x \in Holds
  BY <1>1, <1>2 DEF BackoffOver, Holds
<1>4. /\ SlotBook' /\ BudgetBook'
      /\ at'[c] = x /\ \A d \in Call \ {c} : at'[d] = at[d]
      /\ slots = 1 => \A d \in In({"pacing"})' : d = c
  BY <1>1, <1>3, KeepsSlot
<1>5. BucketBook'
  <2>1. at'[c] = PacedTo
    BY <1>2, <1>4
  <2> QED
    BY <1>1, <1>4, <2>1, Drawn
<1> QED
  BY <1>1, <1>4, <1>5 DEF GInv

(* A call ends, and its slot is free or handed to the head of the queue.   *)
LEMMA ReleaseFrees ==
  ASSUME SlotBook, NEW c \in Call, at[c] = "running", NEW end \in {"done", "failed"},
         Release(c, end), UNCHANGED slots
  PROVE  /\ SlotBook'
         /\ Cardinality(In(Owed)) \in Nat /\ Cardinality(In(Owed)') \in Nat
         /\ Cardinality(In(Owed)') + 1 = Cardinality(In(Owed)) + Ind(end, Owed)
         /\ \A d \in In({"pacing"})' : d \in In({"pacing"}) /\ d # c
<1>1. /\ end \in Arrived \ Waits /\ Ind(end, Claims) = 0 /\ free \in Nat
      /\ at[c] \in Claims /\ at[c] # "queued" /\ at[c] # "woken"
      /\ Ind(at[c], Claims) = 1 /\ Ind(at[c], Owed) = 1
  BY DEF Arrived, Waits, Ended, Ind, Claims, Owed, Holds, SlotBook
<1>2. CASE queue = <<>>
  <2>1. at' = [at EXCEPT ![c] = end] /\ free' = free + 1 /\ UNCHANGED queue
    BY <1>2 DEF Release
  <2>2. free' \in Nat /\ free' + Ind(end, Claims) = free + Ind(at[c], Claims)
    BY <1>1, <2>1
  <2>3. SlotBook'
    BY <1>1, <1>2, <2>1, <2>2, MovedAlone
  <2>4. /\ Cardinality(In(Owed)) \in Nat /\ Cardinality(In(Owed)') \in Nat
        /\ Cardinality(In(Owed)') + Ind(at[c], Owed) = Cardinality(In(Owed)) + Ind(end, Owed)
        /\ at'[c] = end /\ \A d \in Call \ {c} : at'[d] = at[d]
    BY <1>1, <2>1, OwedAlone
  <2> QED
    BY <1>1, <2>3, <2>4 DEF In
<1>3. CASE queue # <<>>
  <2>1. /\ at' = [at EXCEPT ![c] = end, ![Head(queue)] = "woken"]
        /\ queue' = Tail(queue) /\ UNCHANGED free
    BY <1>3 DEF Release
  <2>2. free' \in Nat /\ free' + Ind(end, Claims) = free
    BY <1>1, <2>1
  <2>3. SlotBook'
    BY <1>1, <1>3, <2>1, <2>2, MovedWaking
  <2>4. /\ Cardinality(In(Owed)) \in Nat /\ Cardinality(In(Owed)') \in Nat
        /\ Cardinality(In(Owed)') + Ind(at[c], Owed) = Cardinality(In(Owed)) + Ind(end, Owed)
        /\ at'[c] = end /\ \A d \in Call \ {c} : at'[d] \in {at[d], "woken"}
    BY <1>1, <1>3, <2>1, OwedWaking
  <2> QED
    BY <1>1, <2>3, <2>4 DEF In
<1> QED
  BY <1>2, <1>3

LEMMA SucceedKeeps ==
  ASSUME GInv, NEW c \in Call, Succeed(c)
  PROVE  GInv'
<1>1. /\ SlotBook /\ BudgetBook /\ BucketBook /\ at[c] = "running"
      /\ timer' = [timer EXCEPT ![c] = 0] /\ Release(c, "done")
      /\ UNCHANGED <<slots, bucket, attempts, allowance>>
  BY DEF GInv, Succeed
<1>2. PICK used \in Usage : Settle(used)
  BY DEF Succeed
<1>3. /\ SlotBook'
      /\ Cardinality(In(Owed)) \in Nat /\ Cardinality(In(Owed)') \in Nat
      /\ Cardinality(In(Owed)') + 1 = Cardinality(In(Owed)) + Ind("done", Owed)
      /\ \A d \in In({"pacing"})' : d \in In({"pacing"}) /\ d # c
  BY <1>1, ReleaseFrees
<1>4. Cardinality(In(Owed)) = Cardinality(In(Owed)') + 1
  <2>1. Ind("done", Owed) = 0
    BY DEF Ind, Owed, Holds
  <2> QED
    BY <1>3, <2>1
<1>5. BudgetBook'
  BY <1>1, <1>2, <1>3, <1>4, BudgetSettled
<1>6. BucketBook'
  <2>1. attempts' \in [Call -> 0 .. Retries] /\ 0 \in Nat
    BY <1>1 DEF BucketBook
  <2> QED
    BY <1>1, <1>3, <2>1, NotDrawn
<1> QED
  BY <1>1, <1>3, <1>5, <1>6 DEF GInv

LEMMA AttemptFailsKeeps ==
  ASSUME GInv, NEW c \in Call, at[c] = "running", AttemptFails(c),
         UNCHANGED <<slots, bucket, reserved, spent, level, allowance>>
  PROVE  GInv'
<1>1. SlotBook /\ BudgetBook /\ BucketBook
  BY DEF GInv
<1>2. attempts \in [Call -> 0 .. Retries] /\ Backoff \in Nat /\ 0 \in Nat /\ Retries \in Nat
  BY <1>1, BucketSizes DEF BucketBook
<1>3. CASE attempts[c] < Retries
  <2>1. /\ attempts' = [attempts EXCEPT ![c] = @ + 1] /\ timer' = [timer EXCEPT ![c] = Backoff]
        /\ at' = [at EXCEPT ![c] = "backoff"] /\ UNCHANGED <<queue, free>>
    BY <1>3 DEF AttemptFails
  <2>2. /\ SlotBook' /\ BudgetBook'
        /\ at'[c] = "backoff" /\ \A d \in Call \ {c} : at'[d] = at[d]
    <3>1. at[c] \in Holds /\ "backoff" \in Holds
      BY DEF Holds
    <3> QED
      BY <1>1, <2>1, <3>1, KeepsSlot
  <2>3. attempts' \in [Call -> 0 .. Retries]
    BY <1>2, <1>3, <2>1
  <2>4. \A d \in In({"pacing"})' : d \in In({"pacing"}) /\ d # c
    BY <2>2 DEF In
  <2>5. BucketBook'
    BY <1>1, <1>2, <2>1, <2>3, <2>4, NotDrawn
  <2> QED
    BY <2>2, <2>5 DEF GInv
<1>4. CASE ~(attempts[c] < Retries)
  <2>1. timer' = [timer EXCEPT ![c] = 0] /\ Release(c, "failed") /\ UNCHANGED attempts
    BY <1>4 DEF AttemptFails
  <2>2. /\ SlotBook'
        /\ Cardinality(In(Owed)) \in Nat /\ Cardinality(In(Owed)') \in Nat
        /\ Cardinality(In(Owed)') + 1 = Cardinality(In(Owed)) + Ind("failed", Owed)
        /\ \A d \in In({"pacing"})' : d \in In({"pacing"}) /\ d # c
    BY <1>1, <2>1, ReleaseFrees
  <2>3. BudgetBook'
    <3>1. Ind("failed", Owed) = 1
      BY DEF Ind, Owed
    <3>2. Cardinality(In(Owed)') = Cardinality(In(Owed))
      BY <2>2, <3>1
    <3> QED
      BY <1>1, <3>2, BudgetKept
  <2>4. BucketBook'
    BY <1>1, <1>2, <2>1, <2>2, NotDrawn
  <2> QED
    BY <2>2, <2>3, <2>4 DEF GInv
<1> QED
  BY <1>3, <1>4

LEMMA TickKeeps ==
  ASSUME GInv, Tick
  PROVE  GInv'
<1>1. UNCHANGED <<slots, at, queue, free, reserved, spent, level>>
  BY DEF Tick
<1>2. BucketBook'
  BY BucketTicks DEF GInv
<1> QED
  BY <1>1, <1>2 DEF GInv, SlotBook, BudgetBook, Fifo, In

LEMMA InitKeeps ==
  ASSUME Init
  PROVE  GInv
<1>1. slots \in Nat /\ Estimate \in Nat /\ QueueDepth \in Nat
  BY Positive DEF Init
<1>2. \A P \in SUBSET Arrived : In(P) = {}
  BY DEF Init, In, Arrived, Waits, Holds, Ended
<1>3. /\ In(Arrived) = {} /\ In(Owed) = {} /\ In(Claims) = {} /\ In(Waits) = {}
      /\ In({"queued"}) = {} /\ In({"pacing"}) = {}
  <2>1. {"pacing"} \in SUBSET Arrived /\ Arrived \in SUBSET Arrived
    BY DEF Arrived, Holds
  <2> QED
    BY <1>2, <2>1, PlaceSets
<1>4. IsFiniteSet({}) /\ Cardinality({}) = 0
  BY FS_EmptySet
<1>5. Fifo
  <2>1. queue \in Seq(Call) /\ Len(queue) = 0
    BY DEF Init
  <2>2. \A d \in Call : at[d] # "queued"
    BY DEF Init
  <2>3. 1 .. Len(queue) = {}
    BY <2>1
  <2>4. Len(queue) = Cardinality(In({"queued"}))
    BY <1>3, <1>4, <2>1
  <2> QED
    BY <2>1, <2>2, <2>3, <2>4 DEF Fifo
<1>6. SlotBook
  BY <1>1, <1>3, <1>4, <1>5 DEF Init, SlotBook, Places
<1>7. BudgetBook
  <2>1. Rung(0) = 0
    BY Thresholds DEF Rung
  <2> QED
    BY <1>1, <1>3, <1>4, <2>1 DEF Init, BudgetBook
<1>8. BucketBook
  BY <1>3, BucketSizes DEF Init, BucketBook
<1> QED
  BY <1>6, <1>7, <1>8 DEF GInv, Init

LEMMA NextKeeps ==
  ASSUME GInv, [Next]_vars
  PROVE  GInv'
<1>1. ASSUME NEW c \in Call, Submit(c) PROVE GInv'
  BY <1>1, SubmitKeeps
<1>2. ASSUME NEW c \in Call, Run(c) PROVE GInv'
  <2>1. CASE Resume(c)
    BY <2>1, ResumeKeeps
  <2>2. CASE PaceOver(c)
    BY <2>2, PaceOverKeeps
  <2>3. CASE TimeOut(c)
    BY <2>3, AttemptFailsKeeps DEF TimeOut
  <2>4. CASE BackoffOver(c)
    BY <2>4, BackoffOverKeeps
  <2> QED
    BY <1>2, <2>1, <2>2, <2>3, <2>4 DEF Run
<1>3. ASSUME NEW c \in Call, Succeed(c) PROVE GInv'
  BY <1>3, SucceedKeeps
<1>4. ASSUME NEW c \in Call, Fail(c) PROVE GInv'
  BY <1>4, AttemptFailsKeeps DEF Fail
<1>5. ASSUME Tick PROVE GInv'
  BY <1>5, TickKeeps
<1>6. ASSUME UNCHANGED vars PROVE GInv'
  BY <1>6 DEF vars, GInv, SlotBook, BudgetBook, BucketBook, Fifo, In
<1> QED
  BY <1>1, <1>2, <1>3, <1>4, <1>5, <1>6 DEF Next, AllEnded

-----------------------------------------------------------------------------
(* The three books are kept: the inductive invariant of the gatekeeper.    *)
THEOREM Books == Spec => []GInv
BY InitKeeps, NextKeeps, PTL DEF Spec

(* No slot is lost or handed out twice by a success, a failure, a timeout  *)
(* or a hand-over to a waiter (Gatekeeper.submit under its semaphore), no  *)
(* waiter is left asleep beside a free slot, and the queue never holds     *)
(* more than queue_depth.                                                  *)
THEOREM Slots == Spec => []SlotsConserved
<1>1. GInv => SlotsConserved
  BY SlotsAreConserved DEF GInv
<1> QED
  BY <1>1, Books, PTL

(* Every call stays paid for: in the budget from its submission on, and,   *)
(* where calls do not overlap, in the bucket for each of its attempts.     *)
THEOREM Payments == Spec => []EveryCallIsPaid
<1>1. GInv => EveryCallIsPaid
  <2>1. ASSUME GInv PROVE EveryCallIsPaid
    <3>1. BudgetBook /\ BucketBook
      BY <2>1 DEF GInv
    <3>2. slots = 1 => allowance >= 0
      BY <3>1, BucketSizes DEF BucketBook
    <3> QED
      BY <3>1, <3>2 DEF EveryCallIsPaid, BudgetBook, Owed
  <2> QED
    BY <2>1
<1> QED
  BY <1>1, Books, PTL

(* The gatekeeper is well typed: in particular no call is ever attempted   *)
(* more often than its retries allow.                                      *)
THEOREM GatekeeperTypes == Spec => []TypeOK
<1>1. ASSUME GInv PROVE TypeOK
  <2>1. SlotBook /\ BudgetBook /\ BucketBook /\ slots \in SlotChoices
    BY <1>1 DEF GInv
  <2>2. Cardinality(In(Claims)) \in Nat
    <3>1. In(Claims) \in SUBSET In(Arrived) /\ IsFiniteSet(In(Arrived))
      BY <2>1, PlaceSets DEF SlotBook, In
    <3> QED
      BY <3>1, FS_Subset, FS_CardinalityType
  <2>3. free \in 0 .. slots
    BY <2>1, <2>2 DEF SlotBook
  <2>4. at \in [Call -> {"new"} \cup Waits \cup Holds \cup Ended]
    BY <2>1 DEF SlotBook, Places, Arrived
  <2> QED
    BY <2>1, <2>3, <2>4 DEF TypeOK, SlotBook, Fifo, BudgetBook, BucketBook
<1> QED
  BY <1>1, Books, PTL

(* A call that arrives when others wait is never served before them,       *)
(* whether they sleep in the queue or were woken and have not run yet.     *)
THEOREM Order == Spec => NoOvertaking
<1> DEFINE Step == \A c \in Call : at[c] = "new" /\ at'[c] \in Holds => In(Waits) = {}
<1>1. ASSUME GInv, [Next]_vars PROVE [Step]_vars
  <2> SUFFICES ASSUME NEW c \in Call, at[c] = "new", at'[c] \in Holds
               PROVE  In(Waits) = {}
    OBVIOUS
  <2>1. SlotBook
    BY <1>1 DEF GInv
  <2>2. ~(UNCHANGED at)
    BY DEF Holds
  <2>3. ASSUME NEW d \in Call, Submit(d) PROVE In(Waits) = {}
    BY <2>1, <2>3 DEF Submit, SlotAtOnce, SlotBook, Holds
  <2>4. ASSUME NEW d \in Call, at[d] # "new", NEW x, at' = [at EXCEPT ![d] = x] PROVE FALSE
    BY <2>1, <2>4 DEF SlotBook, Holds
  <2>5. ASSUME NEW d \in Call, at[d] # "new", NEW x,
               at' = [at EXCEPT ![d] = x, ![Head(queue)] = "woken"]
        PROVE  FALSE
    BY <2>1, <2>5 DEF SlotBook, Holds
  <2>6. ASSUME NEW d \in Call, Run(d) PROVE FALSE
    BY <2>6, <2>4, <2>5 DEF Run, Resume, PaceOver, TimeOut, BackoffOver, AttemptFails, Release
  <2>7. ASSUME NEW d \in Call, Succeed(d) \/ Fail(d) PROVE FALSE
    BY <2>7, <2>4, <2>5 DEF Succeed, Fail, AttemptFails, Release
  <2> QED
    BY <1>1, <2>2, <2>3, <2>6, <2>7 DEF Next, Tick, AllEnded, vars
<1> QED
  BY <1>1, Books, PTL DEF Spec, NoOvertaking
=============================================================================
