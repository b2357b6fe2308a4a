------------------------- MODULE SettlementBook_proofs -------------------------
(***************************************************************************)
(* Settlement implements SettlementBook: what is committed changes only by *)
(* recording one result or settling bets of one match, in one step, for    *)
(* every set of workers and requests.  What a settlement pays is a sum over *)
(* a set of bets, so the module begins with what is known of such a sum.    *)
(***************************************************************************)
EXTENDS Settlement_proofs, FiniteSetTheorems

--------------------------------------------------------------------------------
(* Sums over finite sets.  The library's induction theorems take the       *)
(* property as an operator; here it is the set of its instances, so that   *)
(* its well-foundedness theorem (WFMin) is enough.                          *)

\* Induction over the subsets of a finite set, with the property as a set.
LEMMA SetInduction ==
    ASSUME NEW S, IsFiniteSet(S), NEW Good,
           \A T \in SUBSET S : (\A U \in SUBSET T : U # T => U \in Good) => T \in Good
    PROVE  S \in Good
<1> DEFINE R == StrictSubsetOrdering(S)
           Bad == {T \in SUBSET S : T \notin Good}
<1>1. IsWellFoundedOn(R, SUBSET S)
  BY FS_FiniteSubsetsOfFinite, FS_StrictSubsetOrderingWellFounded, Zenon
<1>2. SUFFICES ASSUME Bad # {} PROVE FALSE
  BY DEF Bad
<1>3. PICK T \in Bad : \A U \in Bad : ~(<<U, T>> \in R)
  <2>1. Bad \subseteq SUBSET S
    OBVIOUS
  <2> HIDE DEF R, Bad
  <2> QED  BY <1>1, <1>2, <2>1, WFMin
<1>4. \A U \in SUBSET T : U # T => U \in Good
  BY <1>3 DEF StrictSubsetOrdering
<1> QED  BY <1>3, <1>4

First(T) == CHOOSE x \in T : TRUE
Step(f, g, T) == IF T = {} THEN 0 ELSE f[First(T)] + g[T \ {First(T)}]
Total(f, S, g) == g = [T \in SUBSET S |-> Step(f, g, T)]

LEMMA SumIsChosen ==
  ASSUME NEW f, NEW S
  PROVE SumFunctionOnSet(f, S) = (CHOOSE g : Total(f, S, g))[S]
  BY DEF SumFunctionOnSet, FoldFunctionOnSet, MapThenFoldSet, Total, Step, First

LEMMA FirstIn == ASSUME NEW T, T # {} PROVE First(T) \in T
  BY DEF First

LEMMA TotalsAgree ==
    ASSUME NEW f, NEW S, NEW V, NEW g, NEW h, Total(f, S, g), Total(f, V, h),
           NEW W, IsFiniteSet(W), W \subseteq S, W \subseteq V
    PROVE  g[W] = h[W]
<1> DEFINE Good == {T \in SUBSET W : g[T] = h[T]}
<1>1. ASSUME NEW T \in SUBSET W, \A U \in SUBSET T : U # T => U \in Good
      PROVE  T \in Good
  <2>1. g[T] = Step(f, g, T) /\ h[T] = Step(f, h, T)
    BY DEF Total
  <2>2. Step(f, g, T) = Step(f, h, T)
    <3>1. CASE T = {}
      BY <3>1 DEF Step
    <3>2. CASE T # {}
      <4>1. T \ {First(T)} \in Good
        BY <1>1, <3>2, FirstIn
      <4> QED  BY <3>2, <4>1 DEF Step
    <3> QED  BY <3>1, <3>2
  <2> QED  BY <2>1, <2>2
<1>2. W \in Good
  <2> HIDE DEF Good
  <2> QED  BY <1>1, SetInduction
<1> QED  BY <1>2

LEMMA TotalExists ==
    ASSUME NEW f, NEW S, IsFiniteSet(S)
    PROVE  \E g : Total(f, S, g)
<1> DEFINE Good == {T \in SUBSET S : \E g : Total(f, T, g)}
<1>1. ASSUME NEW T \in SUBSET S, \A U \in SUBSET T : U # T => U \in Good
      PROVE  T \in Good
  <2> DEFINE G(U) == CHOOSE g : Total(f, U, g)
             h == [U \in SUBSET T |-> IF U = T THEN Step(f, G(T \ {First(T)}), T)
                                      ELSE G(U)[U]]
  <2>1. ASSUME NEW U \in SUBSET T, U # T PROVE Total(f, U, G(U))
    <3>1. \E g : Total(f, U, g)
      BY <1>1, <2>1
    <3> QED  BY <3>1
  <2>2. ASSUME NEW U \in SUBSET T PROVE h[U] = Step(f, h, U)
    <3>1. CASE U = {}
      <4>1. CASE U = T
        BY <3>1, <4>1 DEF Step
      <4>2. CASE U # T
        <5>1. Total(f, U, G(U))
          BY <2>1, <4>2
        <5>2. G(U)[U] = Step(f, G(U), U)
          BY <5>1 DEF Total
        <5> QED  BY <3>1, <4>2, <5>2 DEF Step
      <4> QED  BY <4>1, <4>2
    <3>2. CASE U # {}
      <4> DEFINE W == U \ {First(U)}
      <4>1. First(U) \in U
        BY <3>2, FirstIn
      <4>2. W \in SUBSET T /\ W # T /\ W \subseteq U /\ IsFiniteSet(W)
        BY <4>1, FS_Subset
      <4>3. h[W] = G(W)[W] /\ Total(f, W, G(W))
        BY <2>1, <4>2
      <4>4. CASE U = T
        <5>1. h[U] = f[First(U)] + G(W)[W]
          BY <3>2, <4>4 DEF Step
        <5> QED  BY <3>2, <4>3, <5>1 DEF Step
      <4>5. CASE U # T
        <5>1. Total(f, U, G(U)) /\ h[U] = G(U)[U]
          BY <2>1, <4>5
        <5>2. G(U)[U] = f[First(U)] + G(U)[W]
          BY <3>2, <5>1 DEF Total, Step
        <5>3. G(U)[W] = G(W)[W]
          <6> HIDE DEF W, G
          <6> QED  BY <4>2, <4>3, <5>1, TotalsAgree
        <5> QED  BY <3>2, <4>3, <5>1, <5>2, <5>3 DEF Step
      <4> QED  BY <4>4, <4>5
    <3> QED  BY <3>1, <3>2
  <2>3. Total(f, T, h)
    <3>1. h = [U \in SUBSET T |-> Step(f, h, U)]
      <4>1. h = [U \in SUBSET T |-> h[U]]
        OBVIOUS
      <4> HIDE DEF h
      <4> QED  BY <2>2, <4>1
    <3> HIDE DEF h
    <3> QED  BY <3>1 DEF Total
  <2> QED  BY <2>3
<1>2. S \in Good
  <2> HIDE DEF Good
  <2> QED  BY <1>1, SetInduction
<1> QED  BY <1>2

LEMMA SumTotal ==
    ASSUME NEW f, NEW S, IsFiniteSet(S), NEW T \in SUBSET S, NEW g, Total(f, S, g)
    PROVE  SumFunctionOnSet(f, T) = g[T]
<1>1. IsFiniteSet(T)
  BY FS_Subset
<1>2. Total(f, T, CHOOSE h : Total(f, T, h))
  BY <1>1, TotalExists
<1>3. SumFunctionOnSet(f, T) = (CHOOSE h : Total(f, T, h))[T]
  BY SumIsChosen
<1> QED  BY <1>1, <1>2, <1>3, TotalsAgree

LEMMA SumEmpty == ASSUME NEW f PROVE SumFunctionOnSet(f, {}) = 0
<1>1. PICK g : Total(f, {}, g)
  BY TotalExists, FS_EmptySet
<1>2. SumFunctionOnSet(f, {}) = g[{}]
  BY <1>1, SumTotal, FS_EmptySet
<1>3. g[{}] = Step(f, g, {})
  BY <1>1 DEF Total
<1> QED  BY <1>2, <1>3 DEF Step

\* One element out; the sum is natural.
LEMMA SumFirst ==
    ASSUME NEW f, NEW S, IsFiniteSet(S), S # {}
    PROVE  SumFunctionOnSet(f, S) = f[First(S)] + SumFunctionOnSet(f, S \ {First(S)})
<1>1. PICK g : Total(f, S, g)
  BY TotalExists
<1>2. SumFunctionOnSet(f, S) = g[S] /\ SumFunctionOnSet(f, S \ {First(S)}) = g[S \ {First(S)}]
  BY <1>1, SumTotal
<1>3. g[S] = Step(f, g, S)
  BY <1>1 DEF Total
<1> QED  BY <1>2, <1>3 DEF Step

LEMMA SumIsNat ==
    ASSUME NEW f, NEW S, IsFiniteSet(S), \A x \in S : f[x] \in Nat
    PROVE  SumFunctionOnSet(f, S) \in Nat
<1> DEFINE Good == {T \in SUBSET S : SumFunctionOnSet(f, T) \in Nat}
<1>1. ASSUME NEW T \in SUBSET S, \A U \in SUBSET T : U # T => U \in Good
      PROVE  T \in Good
  <2>1. CASE T = {}
    BY <2>1, SumEmpty
  <2>2. CASE T # {}
    <3>1. First(T) \in T /\ IsFiniteSet(T)
      BY <2>2, FirstIn, FS_Subset
    <3>2. T \ {First(T)} \in Good
      BY <1>1, <3>1
    <3>3. SumFunctionOnSet(f, T) = f[First(T)] + SumFunctionOnSet(f, T \ {First(T)})
      BY <2>2, <3>1, SumFirst
    <3> QED  BY <3>1, <3>2, <3>3
  <2> QED  BY <2>1, <2>2
<1>2. S \in Good
  <2> HIDE DEF Good
  <2> QED  BY <1>1, SetInduction
<1> QED  BY <1>2

LEMMA SumTake ==
    ASSUME NEW f, NEW S, IsFiniteSet(S), \A x \in S : f[x] \in Nat, NEW x \in S
    PROVE  SumFunctionOnSet(f, S) = f[x] + SumFunctionOnSet(f, S \ {x})
<1> DEFINE Good == {T \in SUBSET S : \A y \in T : SumFunctionOnSet(f, T) = f[y] + SumFunctionOnSet(f, T \ {y})}
<1>1. ASSUME NEW T \in SUBSET S, \A U \in SUBSET T : U # T => U \in Good
      PROVE  T \in Good
  <2>1. ASSUME NEW y \in T PROVE SumFunctionOnSet(f, T) = f[y] + SumFunctionOnSet(f, T \ {y})
    <3> DEFINE c == First(T)
    <3>1. c \in T /\ IsFiniteSet(T)
      BY FirstIn, FS_Subset
    <3>2. SumFunctionOnSet(f, T) = f[c] + SumFunctionOnSet(f, T \ {c})
      BY <3>1, SumFirst
    <3>3. CASE y # c
      <4>1. T \ {c} \in Good /\ T \ {y} \in Good
        BY <1>1, <3>1
      <4>2. SumFunctionOnSet(f, T \ {c}) = f[y] + SumFunctionOnSet(f, (T \ {c}) \ {y})
        BY <3>3, <4>1
      <4>3. SumFunctionOnSet(f, T \ {y}) = f[c] + SumFunctionOnSet(f, (T \ {y}) \ {c})
        BY <3>1, <3>3, <4>1
      <4>4. (T \ {c}) \ {y} = (T \ {y}) \ {c}
        OBVIOUS
      <4>5. f[c] \in Nat /\ f[y] \in Nat /\ SumFunctionOnSet(f, (T \ {c}) \ {y}) \in Nat
        BY <3>1, FS_Subset, SumIsNat
      <4> HIDE DEF c
      <4> QED  BY <3>2, <4>2, <4>3, <4>4, <4>5, SMTT(30)
    <3> QED  BY <3>2, <3>3
  <2> QED  BY <2>1
<1>2. S \in Good
  <2> HIDE DEF Good
  <2> QED  BY <1>1, SetInduction
<1> QED  BY <1>2

\* Two functions that agree on a set have the same sum over it.
LEMMA SumSame ==
    ASSUME NEW f, NEW g, NEW S, IsFiniteSet(S), \A x \in S : f[x] = g[x]
    PROVE  SumFunctionOnSet(f, S) = SumFunctionOnSet(g, S)
<1> DEFINE Good == {T \in SUBSET S : SumFunctionOnSet(f, T) = SumFunctionOnSet(g, T)}
<1>1. ASSUME NEW T \in SUBSET S, \A U \in SUBSET T : U # T => U \in Good
      PROVE  T \in Good
  <2>1. CASE T = {}
    BY <2>1, SumEmpty
  <2>2. CASE T # {}
    <3>1. First(T) \in T /\ IsFiniteSet(T)
      BY <2>2, FirstIn, FS_Subset
    <3>2. T \ {First(T)} \in Good
      BY <1>1, <3>1
    <3>3. /\ SumFunctionOnSet(f, T) = f[First(T)] + SumFunctionOnSet(f, T \ {First(T)})
          /\ SumFunctionOnSet(g, T) = g[First(T)] + SumFunctionOnSet(g, T \ {First(T)})
      BY <2>2, <3>1, SumFirst
    <3> QED  BY <3>1, <3>2, <3>3
  <2> QED  BY <2>1, <2>2
<1>2. S \in Good
  <2> HIDE DEF Good
  <2> QED  BY <1>1, SetInduction
<1> QED  BY <1>2

\* An element that is new to the set adds its value.
LEMMA SumAdd ==
    ASSUME NEW f, NEW S, IsFiniteSet(S), NEW x, x \notin S, \A y \in S \cup {x} : f[y] \in Nat
    PROVE  SumFunctionOnSet(f, S \cup {x}) = SumFunctionOnSet(f, S) + f[x]
<1>1. IsFiniteSet(S \cup {x}) /\ (S \cup {x}) \ {x} = S
  BY FS_AddElement
<1>2. SumFunctionOnSet(f, S \cup {x}) = f[x] + SumFunctionOnSet(f, (S \cup {x}) \ {x})
  BY <1>1, SumTake
<1>3. SumFunctionOnSet(f, S) \in Nat /\ f[x] \in Nat
  BY SumIsNat
<1> QED  BY <1>1, <1>2, <1>3

\* Two sets without a common element: their sums add up.
LEMMA SumUnion ==
    ASSUME NEW f, NEW S, NEW V, IsFiniteSet(S), IsFiniteSet(V), S \cap V = {},
           \A x \in S \cup V : f[x] \in Nat
    PROVE  SumFunctionOnSet(f, S \cup V) = SumFunctionOnSet(f, S) + SumFunctionOnSet(f, V)
<1> DEFINE Good == {T \in SUBSET V :
                      SumFunctionOnSet(f, S \cup T) = SumFunctionOnSet(f, S) + SumFunctionOnSet(f, T)}
<1>1. ASSUME NEW T \in SUBSET V, \A U \in SUBSET T : U # T => U \in Good
      PROVE  T \in Good
  <2>0. IsFiniteSet(T) /\ SumFunctionOnSet(f, S) \in Nat
    BY FS_Subset, SumIsNat
  <2>1. CASE T = {}
    <3>1. S \cup T = S
      BY <2>1
    <3> QED  BY <2>0, <2>1, <3>1, SumEmpty
  <2>2. CASE T # {}
    <3> DEFINE x == First(T)
               U == T \ {x}
    <3>1. x \in T /\ U \in SUBSET T /\ U # T
      BY <2>2, FirstIn
    <3>2. SumFunctionOnSet(f, S \cup U) = SumFunctionOnSet(f, S) + SumFunctionOnSet(f, U)
      BY <1>1, <3>1
    <3>3. SumFunctionOnSet(f, T) = f[x] + SumFunctionOnSet(f, U)
      BY <2>0, <2>2, SumFirst
    <3>4. IsFiniteSet(U) /\ SumFunctionOnSet(f, U) \in Nat
      BY <2>0, <3>1, FS_Subset, SumIsNat
    <3>5. S \cup T = (S \cup U) \cup {x} /\ x \notin S \cup U /\ IsFiniteSet(S \cup U)
      BY <3>1, <3>4, FS_Union
    <3>6. SumFunctionOnSet(f, S \cup T) = SumFunctionOnSet(f, S \cup U) + f[x]
      <4>1. \A y \in (S \cup U) \cup {x} : f[y] \in Nat
        BY <3>1
      <4> HIDE DEF x, U
      <4> QED  BY <3>5, <4>1, SumAdd
    <3>7. f[x] \in Nat
      BY <3>1
    <3> HIDE DEF x, U
    <3> QED  BY <2>0, <3>2, <3>3, <3>4, <3>6, <3>7
  <2> QED  BY <2>1, <2>2
<1>2. V \in Good
  <2> HIDE DEF Good
  <2> QED  BY <1>1, SetInduction
<1> QED  BY <1>2

--------------------------------------------------------------------------------
(* What a request has gathered is what the book's step says.               *)

Held(r) == {k \in Keys : betLock[k] = r}
Pay(r) == [k \in won[r] |-> Payout(k)]
WonBy(r, u) == {k \in won[r] : UserOf(k) = u}

\* The rows a request holds are of its match; while it pays, the winners among
\* them are those it has paid and those it has yet to pay; and its credit to a
\* user is the sum of what it has paid him.
GainOK(r) ==
    /\ IsFiniteSet(won[r])
    /\ \A u \in Users : credit[r][u] = SumFunctionOnSet(Pay(r), WonBy(r, u))
    /\ \A k \in scan[r] : status[k] # "NONE"
    /\ \A k \in scan[r] \cup Held(r) : RowOf(k).match = match[r]
    /\ rpc[r] # "pay" => won[r] = {} /\ todo[r] = Held(r)
    /\ rpc[r] = "pay" => todo[r] \cup won[r] = {k \in Held(r) : IsWinner(r, k)}

\* An event past the check satisfied the schema.
ValidOK(w) == wpc[w] \in {"ensure", "debit", "write"} => Valid(Event(w))

GainInv == (\A r \in Requests : GainOK(r)) /\ (\A w \in Workers : ValidOK(w))

\* A row that exists keeps its content.
LEMMA RowStays ==
    ASSUME IInv, [Next]_vars, NEW k \in Keys, status[k] # "NONE"
    PROVE  /\ status'[k] # "NONE"
           /\ RowOf(k)' = RowOf(k) /\ UserOf(k)' = UserOf(k) /\ Payout(k)' = Payout(k)
<1>1. origin'[k] = origin[k] /\ status'[k] # "NONE"
  BY RowsFinalStep DEF IInv, LockInv, RowFinal
<1>2. topic' = topic
  BY TopicFixed
<1> QED  BY <1>1, <1>2 DEF RowOf, UserOf, Payout

\* The step leaves request r and the rows it holds alone.
Apart(r) ==
    /\ rpc'[r] = rpc[r] /\ match'[r] = match[r] /\ winner'[r] = winner[r] /\ scan'[r] = scan[r]
    /\ todo'[r] = todo[r] /\ won'[r] = won[r] /\ credit'[r] = credit[r]
    /\ Held(r)' = Held(r)

LEMMA HeldExists ==
    ASSUME IInv, NEW r \in Requests
    PROVE  /\ \A k \in Held(r) : k \in Keys /\ status[k] = "ACCEPTED"
           /\ todo[r] \cup won[r] \subseteq Held(r)
           /\ scan[r] \subseteq Keys
  BY ActorsAssumption DEF IInv, LockInv, BetLockInv, Held, RequestInv, RequestOK, TypeOK,
                          RequestType

LEMMA ApartKeeps ==
    ASSUME IInv, [Next]_vars, NEW r \in Requests, GainOK(r), Apart(r)
    PROVE  GainOK(r)'
<1>1. \A k \in scan[r] \cup Held(r) :
        /\ status'[k] # "NONE"
        /\ RowOf(k)' = RowOf(k) /\ UserOf(k)' = UserOf(k) /\ Payout(k)' = Payout(k)
  BY HeldExists, RowStays DEF GainOK
<1>2. \A u \in Users : WonBy(r, u)' = WonBy(r, u)
  BY <1>1, HeldExists DEF WonBy, Apart
<1>3. Pay(r)' = Pay(r)
  BY <1>1, HeldExists DEF Pay, Apart
<1>4. \A k \in Held(r) : IsWinner(r, k)' <=> IsWinner(r, k)
  BY <1>1 DEF IsWinner, Apart
<1>5. IsFiniteSet(won'[r])
  BY DEF GainOK, Apart
<1>6. \A u \in Users : credit'[r][u] = SumFunctionOnSet(Pay(r)', WonBy(r, u)')
  BY <1>2, <1>3 DEF GainOK, Apart
<1>7. \A k \in scan'[r] : status'[k] # "NONE"
  BY <1>1 DEF GainOK, Apart
<1>8. \A k \in scan'[r] \cup Held(r)' : RowOf(k)'.match = match'[r]
  BY <1>1 DEF GainOK, Apart
<1>9. rpc'[r] # "pay" => won'[r] = {} /\ todo'[r] = Held(r)'
  BY DEF GainOK, Apart
<1>10. rpc'[r] = "pay" => todo'[r] \cup won'[r] = {k \in Held(r)' : IsWinner(r, k)'}
  BY <1>4 DEF GainOK, Apart
<1> QED  BY <1>5, <1>6, <1>7, <1>8, <1>9, <1>10 DEF GainOK

LEMMA WorkersApart ==
    ASSUME TypeOK, NEW r \in Requests, NEW w \in Workers, WorkerStep(w)
    PROVE  Apart(r)
  BY DEF Apart, Held, WorkerStep, Start, Assign, Fetch, Ack, Check, EnsureAccount, Debit,
         Write, DatabaseError, Crash, request, locks

LEMMA RequestsApart ==
    ASSUME TypeOK, NEW r \in Requests, NEW s \in Requests, s # r, RequestStep(s)
    PROVE  Apart(r)
<1> USE ActorsAssumption DEF Apart
<1>0. LockType /\ RequestType
  BY DEF TypeOK
<1>1. CASE BeginSettle(s)
  BY <1>0, <1>1 DEF BeginSettle, Held, locks, RequestType
<1>2. ASSUME NEW k \in Keys, LockRow(s, k) PROVE Apart(r)
  <2>1. Held(r)' = Held(r)
    BY <1>0, <1>2 DEF LockRow, Unlocked, LockType, Held
  <2> QED  BY <1>0, <1>2, <2>1 DEF LockRow, RequestType
<1>3. CASE EndScan(s)
  BY <1>0, <1>3 DEF EndScan, Held, locks, RequestType
<1>4. ASSUME NEW k \in Keys, PayWinner(s, k) PROVE Apart(r)
  BY <1>0, <1>4 DEF PayWinner, Held, RequestType
<1>5. ASSUME NEW label, EndRequest(s, label), UNCHANGED <<match, winner>> PROVE Apart(r)
  <2>1. Held(r)' = Held(r)
    BY <1>0, <1>5 DEF EndRequest, LockType, Held
  <2> QED  BY <1>0, <1>5, <2>1 DEF EndRequest, ClearRequest, RequestType
<1> QED  BY <1>1, <1>2, <1>3, <1>4, <1>5
            DEF RequestStep, CommitSettle, DeadlockVictim, AbortSettle

\* A request that gathers nothing and holds nothing.
LEMMA NothingGathered ==
    ASSUME TypeOK, NEW r \in Requests, NEW label \in {"done", "aborted"}, EndRequest(r, label)
    PROVE  GainOK(r)'
<1>0. LockType /\ RequestType
  BY DEF TypeOK
<1>1. /\ rpc'[r] = label /\ won'[r] = {} /\ todo'[r] = {} /\ scan'[r] = {}
      /\ credit'[r] = [u \in Users |-> 0]
  BY <1>0 DEF EndRequest, ClearRequest, RequestType
<1>2. Held(r)' = {}
  BY <1>0, ActorsAssumption DEF EndRequest, Held, LockType
<1>3. \A u \in Users : WonBy(r, u)' = {}
  BY <1>1 DEF WonBy
<1>4. \A u \in Users : credit'[r][u] = SumFunctionOnSet(Pay(r)', WonBy(r, u)')
  BY <1>1, <1>3, SumEmpty
<1> QED  BY <1>1, <1>2, <1>4, FS_EmptySet DEF GainOK

\* Paying a winner adds its payout to the sum of its user.
LEMMA PayKeeps ==
    ASSUME IInv, NEW r \in Requests, GainOK(r), NEW k \in Keys, PayWinner(r, k)
    PROVE  GainOK(r)'
<1>0. LockType /\ RequestType /\ DbType /\ KafkaType /\ RowInv /\ RequestOK(r)
  BY DEF IInv, TypeOK, RequestInv
<1>1. /\ rpc[r] = "pay" /\ rpc' = rpc /\ k \in todo[r]
      /\ todo'[r] = todo[r] \ {k} /\ won'[r] = won[r] \cup {k}
      /\ UNCHANGED <<db, topic, betLock, match, winner, scan>>
  BY <1>0 DEF PayWinner, RequestType, kafka
<1>2. k \notin won[r]
  BY <1>0, <1>1 DEF RequestOK
<1>3. \A j \in Keys : RowOf(j)' = RowOf(j) /\ UserOf(j)' = UserOf(j) /\ Payout(j)' = Payout(j)
  BY <1>1 DEF RowOf, UserOf, Payout, db
<1>4. Held(r)' = Held(r)
  BY <1>1 DEF Held
<1>5. \A j \in won[r] \cup {k} : j \in Keys /\ Payout(j) \in Nat /\ UserOf(j) \in Users
  <2>1. \A j \in won[r] \cup {k} : j \in Keys /\ status[j] = "ACCEPTED"
    BY <1>1, HeldExists
  <2> QED  BY <1>0, <2>1, RowIsResult
<1>6. ASSUME NEW u \in Users
      PROVE  credit'[r][u] = SumFunctionOnSet(Pay(r)', WonBy(r, u)')
  <2>1. \A j \in won[r] \cup {k} : Pay(r)'[j] = Payout(j)
    BY <1>1, <1>3, <1>5 DEF Pay
  <2>2. \A j \in won[r] : Pay(r)[j] = Payout(j)
    BY DEF Pay
  <2>3. IsFiniteSet(WonBy(r, u)) /\ WonBy(r, u) \subseteq won[r]
    BY FS_Subset DEF GainOK, WonBy
  <2>4. SumFunctionOnSet(Pay(r)', WonBy(r, u)) = SumFunctionOnSet(Pay(r), WonBy(r, u))
    BY <2>1, <2>2, <2>3, SumSame
  <2>5. credit[r][u] = SumFunctionOnSet(Pay(r), WonBy(r, u))
    BY DEF GainOK
  <2>6. CASE u = UserOf(k)
    <3>1. WonBy(r, u)' = WonBy(r, u) \cup {k}
      BY <1>1, <1>3, <1>5, <2>6 DEF WonBy
    <3>2. SumFunctionOnSet(Pay(r)', WonBy(r, u) \cup {k})
            = SumFunctionOnSet(Pay(r)', WonBy(r, u)) + Payout(k)
      <4>1. \A j \in WonBy(r, u) \cup {k} : Pay(r)'[j] \in Nat
        BY <1>5, <2>1, <2>3
      <4>2. k \notin WonBy(r, u) /\ Pay(r)'[k] = Payout(k)
        BY <1>2, <2>1, <2>3
      <4> HIDE DEF Pay
      <4> QED  BY <2>3, <4>1, <4>2, SumAdd
    <3>3. credit'[r][u] = credit[r][u] + Payout(k)
      BY <1>0, <2>6 DEF PayWinner, RequestType
    <3> QED  BY <2>4, <2>5, <3>1, <3>2, <3>3
  <2>7. CASE u # UserOf(k)
    <3>1. WonBy(r, u)' = WonBy(r, u)
      BY <1>1, <1>3, <1>5, <2>7 DEF WonBy
    <3>2. credit'[r][u] = credit[r][u]
      BY <1>0, <2>7 DEF PayWinner, RequestType
    <3> QED  BY <2>4, <2>5, <3>1, <3>2
  <2> QED  BY <2>6, <2>7
<1>7. IsFiniteSet(won'[r])
  <2>1. IsFiniteSet(won[r])
    BY DEF GainOK
  <2>2. IsFiniteSet(won[r] \cup {k})
    BY <2>1, FS_AddElement
  <2> QED  BY <1>1, <2>2
<1>8. /\ \A j \in scan'[r] : status'[j] # "NONE"
      /\ \A j \in scan'[r] \cup Held(r)' : RowOf(j)'.match = match'[r]
  BY <1>1, <1>3, <1>4, HeldExists DEF GainOK, db
<1>9. todo'[r] \cup won'[r] = {j \in Held(r)' : IsWinner(r, j)'}
  <2>1. \A j \in Held(r) : IsWinner(r, j)' <=> IsWinner(r, j)
    BY <1>1, <1>3, HeldExists DEF IsWinner
  <2> QED  BY <1>1, <1>4, <2>1 DEF GainOK
<1> QED  BY <1>1, <1>6, <1>7, <1>8, <1>9 DEF GainOK

LEMMA OwnGain ==
    ASSUME IInv, [Next]_vars, NEW r \in Requests, GainOK(r), RequestStep(r)
    PROVE  GainOK(r)'
<1> USE ActorsAssumption
<1>0. LockType /\ RequestType /\ DbType /\ KafkaType
  BY DEF IInv, TypeOK
<1>1. CASE BeginSettle(r)
  <2>1. /\ scan'[r] = Settleable(r) /\ rpc[r] = "new" /\ rpc'[r] = "scan"
        /\ UNCHANGED <<db, topic, betLock, match, winner, todo, won, credit>>
    BY <1>0, <1>1 DEF BeginSettle, RequestType, kafka, locks
  <2>2. \A j \in Keys : RowOf(j)' = RowOf(j) /\ UserOf(j)' = UserOf(j) /\ Payout(j)' = Payout(j)
    BY <2>1 DEF RowOf, UserOf, Payout, db
  <2>3. Held(r)' = Held(r) /\ won[r] = {} /\ todo[r] = Held(r)
    BY <2>1 DEF Held, GainOK
  <2>4. \A u \in Users : WonBy(r, u)' = {} /\ WonBy(r, u) = {}
    BY <2>1, <2>3 DEF WonBy
  <2>5. \A u \in Users : credit'[r][u] = SumFunctionOnSet(Pay(r)', WonBy(r, u)')
    BY <2>1, <2>4, SumEmpty DEF GainOK
  <2>6. /\ \A k \in scan'[r] : status'[k] # "NONE"
        /\ \A k \in scan'[r] \cup Held(r)' : RowOf(k)'.match = match'[r]
    BY <2>1, <2>2, <2>3, HeldExists DEF Settleable, GainOK, db
  <2> QED  BY <2>1, <2>3, <2>5, <2>6, FS_EmptySet DEF GainOK
<1>2. ASSUME NEW k \in Keys, LockRow(r, k) PROVE GainOK(r)'
  <2>1. /\ rpc[r] = "scan" /\ rpc' = rpc /\ k \in scan[r] /\ scan'[r] = scan[r] \ {k}
        /\ UNCHANGED <<db, topic, match, winner, won, credit>>
    BY <1>0, <1>2 DEF LockRow, RequestType, kafka
  <2>2. \A j \in Keys : RowOf(j)' = RowOf(j) /\ UserOf(j)' = UserOf(j) /\ Payout(j)' = Payout(j)
    BY <2>1 DEF RowOf, UserOf, Payout, db
  <2>3. won[r] = {} /\ todo[r] = Held(r)
    BY <2>1 DEF GainOK
  <2>4. \A u \in Users : WonBy(r, u)' = {} /\ WonBy(r, u) = {}
    BY <2>1, <2>3 DEF WonBy
  <2>5. \A u \in Users : credit'[r][u] = SumFunctionOnSet(Pay(r)', WonBy(r, u)')
    BY <2>1, <2>4, SumEmpty DEF GainOK
  <2>6. todo'[r] = Held(r)' /\ Held(r)' \subseteq Held(r) \cup {k}
    <3>1. CASE Unlocked(r, k) /\ StillAccepted(r, k)
      <4>1. betLock'[k] = r /\ \A j \in Keys \ {k} : betLock'[j] = betLock[j]
        BY <1>0, <1>2, <3>1 DEF LockRow, LockType
      <4>2. todo'[r] = todo[r] \cup {k}
        BY <1>0, <1>2, <3>1 DEF LockRow, RequestType
      <4> QED  BY <2>3, <4>1, <4>2 DEF Held
    <3>2. CASE ~(Unlocked(r, k) /\ StillAccepted(r, k))
      BY <1>2, <2>3, <3>2 DEF LockRow, Held
    <3> QED  BY <3>1, <3>2
  <2>7. /\ \A j \in scan'[r] : status'[j] # "NONE"
        /\ \A j \in scan'[r] \cup Held(r)' : RowOf(j)'.match = match'[r]
    BY <2>1, <2>2, <2>6, HeldExists DEF GainOK, db
  <2> QED  BY <2>1, <2>3, <2>5, <2>6, <2>7, FS_EmptySet DEF GainOK
<1>3. CASE EndScan(r)
  <2>1. /\ rpc[r] = "scan" /\ rpc'[r] = "pay" /\ todo'[r] = {k \in todo[r] : IsWinner(r, k)}
        /\ UNCHANGED <<db, topic, betLock, match, winner, scan, won, credit>>
    BY <1>0, <1>3 DEF EndScan, RequestType, kafka, locks
  <2>2. \A j \in Keys : RowOf(j)' = RowOf(j) /\ UserOf(j)' = UserOf(j) /\ Payout(j)' = Payout(j)
    BY <2>1 DEF RowOf, UserOf, Payout, db
  <2>3. Held(r)' = Held(r) /\ won[r] = {} /\ todo[r] = Held(r)
    BY <2>1 DEF Held, GainOK
  <2>4. \A u \in Users : WonBy(r, u)' = {} /\ WonBy(r, u) = {}
    BY <2>1, <2>3 DEF WonBy
  <2>5. \A u \in Users : credit'[r][u] = SumFunctionOnSet(Pay(r)', WonBy(r, u)')
    BY <2>1, <2>4, SumEmpty DEF GainOK
  <2>6. /\ \A k \in scan'[r] : status'[k] # "NONE"
        /\ \A k \in scan'[r] \cup Held(r)' : RowOf(k)'.match = match'[r]
    BY <2>1, <2>2, <2>3, HeldExists DEF GainOK, db
  <2>7. todo'[r] \cup won'[r] = {j \in Held(r)' : IsWinner(r, j)'}
    <3>1. \A j \in Held(r) : IsWinner(r, j)' <=> IsWinner(r, j)
      BY <2>1, <2>2, HeldExists DEF IsWinner
    <3> QED  BY <2>1, <2>3, <3>1
  <2> QED  BY <2>1, <2>3, <2>5, <2>6, <2>7, FS_EmptySet DEF GainOK
<1>4. CASE CommitSettle(r) \/ DeadlockVictim(r) \/ AbortSettle(r)
  BY <1>0, <1>4, NothingGathered DEF IInv, CommitSettle, DeadlockVictim, AbortSettle
<1> QED  BY <1>1, <1>2, <1>3, <1>4, PayKeeps DEF RequestStep

\* A worker goes past the check with a valid event only, and stays with it.
LEMMA ValidStep ==
    ASSUME IInv, GainInv, [Next]_vars, NEW v \in Workers
    PROVE  ValidOK(v)'
<1>0. WorkerType /\ topic' = topic
  BY TopicFixed DEF IInv, TypeOK
<1>1. ASSUME wpc'[v] = wpc[v], cur'[v] = cur[v] PROVE ValidOK(v)'
  BY <1>0, <1>1 DEF GainInv, ValidOK, Event
<1>2. ASSUME NEW w \in Workers, WorkerStep(w), v # w PROVE ValidOK(v)'
  <2>1. wpc'[v] = wpc[v] /\ cur'[v] = cur[v]
    BY <1>0, <1>2 DEF WorkerStep, Start, Assign, Fetch, Ack, Check, EnsureAccount, Debit, Write,
       DatabaseError, Crash, Fail, SkipMessage, NextMessage, Die, GoTo, WorkerType
  <2> QED  BY <1>1, <2>1
<1>3. ASSUME WorkerStep(v) PROVE ValidOK(v)'
  <2>1. CASE wpc'[v] \notin {"ensure", "debit", "write"}
    BY <2>1 DEF ValidOK
  <2>2. CASE Check(v)
    BY <1>0, <2>2 DEF Check, GoTo, ValidOK, Event, WorkerType
  <2>3. CASE EnsureAccount(v) \/ Debit(v)
    <3>1. wpc[v] \in {"ensure", "debit"}
      BY <2>3 DEF EnsureAccount, Debit
    <3>2. cur' = cur \/ wpc'[v] \notin {"ensure", "debit", "write"}
      BY <1>0, <2>3 DEF EnsureAccount, Debit, Fail, SkipMessage, NextMessage, GoTo, WorkerType
    <3> QED  BY <1>0, <2>1, <3>1, <3>2 DEF GainInv, ValidOK, Event
  <2>4. CASE Assign(v)
    BY <1>1, <2>4 DEF Assign
  <2>5. CASE \/ Start(v) \/ Fetch(v) \/ Ack(v) \/ Write(v) \/ DatabaseError(v) \/ Crash(v)
    BY <1>0, <2>1, <2>5 DEF Start, Fetch, Ack, Write, DatabaseError, Crash, Fail, SkipMessage,
       NextMessage, Die, GoTo, WorkerType
  <2> QED  BY <1>3, <2>2, <2>3, <2>4, <2>5 DEF WorkerStep
<1>4. ASSUME NEW r \in Requests, RequestStep(r) PROVE ValidOK(v)'
  BY <1>1, <1>4 DEF RequestStep, BeginSettle, LockRow, EndScan, PayWinner, CommitSettle,
                    DeadlockVictim, AbortSettle, worker
<1>5. CASE UNCHANGED vars
  BY <1>1, <1>5 DEF vars, worker
<1> QED  BY <1>2, <1>3, <1>4, <1>5 DEF Next

LEMMA GainStep == IInv /\ GainInv /\ [Next]_vars => GainInv'
<1> SUFFICES ASSUME IInv, GainInv, [Next]_vars PROVE GainInv'
  OBVIOUS
<1>1. ASSUME NEW r \in Requests PROVE GainOK(r)'
  <2>1. ASSUME NEW w \in Workers, WorkerStep(w) PROVE GainOK(r)'
    BY <2>1, WorkersApart, ApartKeeps DEF GainInv, IInv
  <2>2. ASSUME NEW s \in Requests, RequestStep(s) PROVE GainOK(r)'
    BY <2>2, OwnGain, RequestsApart, ApartKeeps DEF GainInv, IInv
  <2>3. CASE UNCHANGED vars
    <3>1. Apart(r)
      BY <2>3 DEF Apart, Held, vars, request, locks
    <3> QED  BY <3>1, ApartKeeps DEF GainInv
  <2> QED  BY <2>1, <2>2, <2>3 DEF Next
<1> QED  BY <1>1, ValidStep DEF GainInv

LEMMA GainInit == Init => GainInv
<1> SUFFICES ASSUME Init PROVE GainInv
  OBVIOUS
<1>1. ASSUME NEW r \in Requests PROVE GainOK(r)
  <2>1. /\ rpc[r] = "new" /\ won[r] = {} /\ todo[r] = {} /\ scan[r] = {}
        /\ credit[r] = [u \in Users |-> 0]
    BY <1>1 DEF Init
  <2>2. Held(r) = {}
    BY ActorsAssumption DEF Init, Held
  <2>3. \A u \in Users : WonBy(r, u) = {}
    BY <2>1 DEF WonBy
  <2>4. \A u \in Users : credit[r][u] = SumFunctionOnSet(Pay(r), WonBy(r, u))
    BY <2>1, <2>3, SumEmpty
  <2> QED  BY <2>1, <2>2, <2>4, FS_EmptySet DEF GainOK
<1>2. \A w \in Workers : ValidOK(w)
  BY DEF Init, ValidOK
<1> QED  BY <1>1, <1>2 DEF GainInv

--------------------------------------------------------------------------------
(* The refinement, step by step.                                           *)

\* Init says all that the book's initial state asks for.
LEMMA BookInit == Init => Book!Init
  BY DEF Init, Book!Init

\* The commit of a worker is the recording of its event.
LEMMA InsertRecords ==
    ASSUME IInv, GainInv, topic' = topic,
           NEW w \in Workers, wpc[w] = "write", KeyFree(Event(w).key), Insert(w)
    PROVE  Book!Next
<1> DEFINE m == Event(w)
           stake == IF m.accepted THEN m.stake ELSE 0
<1>0. DbType /\ KafkaType /\ WorkerOK(w) /\ RowInv /\ NoOverdraft
  BY DEF IInv, TypeOK, WorkerInv
<1>1. cur[w] \in 1..Len(topic) /\ m \in Result
  BY EventIsResult DEF IInv, TypeOK, Processing, InTx
<1>2. m.user \in Users /\ m.key \in Keys /\ m.stake \in Nat /\ m.accepted \in BOOLEAN
  BY <1>1 DEF Result
<1>3. status[m.key] = "NONE" /\ m.stake > 0 /\ m.odds > OddsScale
  BY DEF KeyFree, GainInv, ValidOK, Valid
<1>4. Available(m.user) >= stake
  <2>1. Available(m.user) >= 0
    BY <1>0, <1>2, SeedAssumption DEF Available, NoOverdraft
  <2>2. m.accepted => Available(m.user) >= m.stake
    BY <1>0 DEF WorkerOK
  <2> QED  BY <2>1, <2>2
<1>5. stakeRows' = [stakeRows EXCEPT ![m.key] = IF m.accepted THEN 1 ELSE 0]
  <2>1. stakeRows[m.key] = 0
    BY <1>2, <1>3 DEF IInv, OneMovementPerBet
  <2> QED  BY <1>0, <1>2, <2>1 DEF Insert, DbType
<1>6. Book!Record(cur[w])
  <2>1. /\ status' = [status EXCEPT ![m.key] = IF m.accepted THEN "ACCEPTED" ELSE "REJECTED"]
        /\ origin' = [origin EXCEPT ![m.key] = cur[w]]
        /\ accounts' = accounts \cup {m.user}
        /\ balance' = [balance EXCEPT ![m.user] = Available(m.user) - stake]
        /\ ledger' = [ledger EXCEPT ![m.user] = @ - stake]
        /\ UNCHANGED payoutRows
    BY DEF Insert
  <2>2. m = topic[cur[w]] /\ OddsScale = Book!OddsScale
    BY DEF Event, Book!OddsScale, OddsScale
  <2>3. Available(m.user) = IF m.user \in accounts THEN balance[m.user] ELSE WalletSeed
    BY DEF Available
  <2> HIDE DEF m
  <2> QED  BY <1>3, <1>4, <1>5, <2>1, <2>2, <2>3, Zenon DEF Book!Record
<1> QED  BY <1>1, <1>6 DEF Book!Next

\* The book and the model sum with the same operator.
LEMMA SameSum == ASSUME NEW f, NEW S PROVE Book!SumFunctionOnSet(f, S) = SumFunctionOnSet(f, S)
  BY DEF Book!SumFunctionOnSet, Book!FoldFunctionOnSet, Book!MapThenFoldSet,
         SumFunctionOnSet, FoldFunctionOnSet, MapThenFoldSet

\* The commit of a request is the settlement, in one step, of the rows it
\* holds: they are all of its match, and it has paid exactly the winners.
LEMMA CommitSettles ==
    ASSUME IInv, GainInv, topic' = topic, NEW r \in Requests, CommitSettle(r)
    PROVE  Book!Next
<1>0. DbType /\ KafkaType /\ RequestType /\ RowInv /\ RequestOK(r) /\ GainOK(r)
  BY DEF IInv, TypeOK, RequestInv, GainInv
<1>1. won[r] = {k \in Held(r) : IsWinner(r, k)}
  BY <1>0 DEF CommitSettle, GainOK
<1>2. won[r] = {k \in Held(r) : topic[origin[k]].sel = winner[r]}
  BY <1>1 DEF IsWinner, RowOf
<1>3. /\ Held(r) \subseteq {k \in Keys : status[k] = "ACCEPTED" /\ topic[origin[k]].match = match[r]}
      /\ Held(r) \in SUBSET Keys
  BY <1>0, HeldExists DEF GainOK, RowOf
<1>4. status' = [k \in Keys |-> IF k \notin Held(r) THEN status[k]
                                ELSE IF k \in won[r] THEN "WON" ELSE "LOST"]
  BY DEF CommitSettle, Outcome, Held
<1> DEFINE pay == [k \in won[r] |-> PayoutCents(topic[origin[k]].stake, topic[origin[k]].odds)]
           gain(u) == Book!SumFunctionOnSet(pay, {k \in won[r] : topic[origin[k]].user = u})
<1>5. ASSUME NEW u \in Users PROVE credit[r][u] = gain(u) /\ rows[r][u] = gain(u)
  <2>1. pay = Pay(r) /\ WonBy(r, u) = {k \in won[r] : topic[origin[k]].user = u}
    BY DEF Pay, Payout, WonBy, UserOf, RowOf
  <2> HIDE DEF pay
  <2> QED  BY <1>0, <2>1, SameSum DEF GainOK, RequestOK
<1>6. /\ balance' = [u \in Users |-> balance[u] + gain(u)]
      /\ ledger' = [u \in Users |-> ledger[u] + gain(u)]
  <2> HIDE DEF gain
  <2> QED  BY <1>5 DEF CommitSettle
<1>7. payoutRows' = [k \in Keys |-> IF k \in won[r] THEN 1 ELSE payoutRows[k]]
  <2>1. ASSUME NEW k \in Keys
        PROVE  payoutRows[k] + (IF k \in won[r] THEN 1 ELSE 0)
                 = IF k \in won[r] THEN 1 ELSE payoutRows[k]
    <3>1. k \in won[r] => payoutRows[k] = 0
      BY HeldExists DEF IInv, OneMovementPerBet
    <3> QED  BY <1>0, <3>1 DEF DbType
  <2> QED  BY <2>1 DEF CommitSettle
<1>8. UNCHANGED <<accounts, origin, stakeRows, topic>>
  BY DEF CommitSettle
<1>9. Book!Settle(Held(r), match[r], winner[r])
  BY <1>2, <1>3, <1>4, <1>6, <1>7, <1>8 DEF Book!Settle, Book!PayoutCents, PayoutCents,
     Book!OddsScale, OddsScale
<1>10. match[r] \in Matches /\ winner[r] \in Selections
  BY <1>0 DEF RequestType
<1> QED  BY <1>3, <1>9, <1>10 DEF Book!Next

\* For any number of workers and requests, however their statements
\* interleave and fail: what is committed changes only as the book says, one
\* result recorded or one set of bets settled at a time (worker.py:38-90,
\* settlement.py:44-69).
THEOREM Serializable == Spec => ImplementsBook
<1>1. Init => IInv /\ GainInv /\ Book!Init
  BY Initially, GainInit, BookInit
<1>2. IInv /\ GainInv /\ [Next]_vars => IInv' /\ GainInv'
  BY Inductive, GainStep
<1>3. IInv /\ GainInv /\ [Next]_vars => [Book!Next]_<<topic, Book!book>>
  <2> SUFFICES ASSUME IInv, GainInv, [Next]_vars PROVE [Book!Next]_<<topic, Book!book>>
    OBVIOUS
  <2>1. topic' = topic
    BY TopicFixed
  <2>2. CASE UNCHANGED db
    BY <2>1, <2>2 DEF db, Book!book
  <2> QED  BY <2>1, <2>2, BookSteps, InsertRecords, CommitSettles
<1> QED  BY <1>1, <1>2, <1>3, PTL DEF Spec, ImplementsBook, Book!Spec

--------------------------------------------------------------------------------
(* The three tables.  Only finitely many rows exist, each with a content    *)
(* that BetResultEvent let through, and the ledger is their sum.            *)

Accepted == {"ACCEPTED", "WON", "LOST"}

TablesInv ==
    /\ IsFiniteSet({k \in Keys : status[k] # "NONE"})
    /\ \A k \in Keys : status[k] # "NONE" => Valid(RowOf(k))
    /\ \A u \in Users : ledger[u] = PaidOut(u) - Staked(u)

LEMMA BetsFinite ==
    ASSUME TablesInv, NEW u, NEW S, "NONE" \notin S
    PROVE  IsFiniteSet(BetsOf(u, S))
<1>1. BetsOf(u, S) \subseteq {k \in Keys : status[k] # "NONE"}
  BY DEF BetsOf
<1> QED  BY <1>1, FS_Subset DEF TablesInv

\* The two sums are natural numbers.
LEMMA SumsAreNat ==
    ASSUME IInv, TablesInv, NEW u
    PROVE  Staked(u) \in Nat /\ PaidOut(u) \in Nat
<1> DEFINE A == BetsOf(u, Accepted)
           W == BetsOf(u, {"WON"})
<1>0. DbType /\ KafkaType /\ RowInv
  BY DEF IInv, TypeOK
<1>1. IsFiniteSet(A) /\ IsFiniteSet(W)
  BY BetsFinite DEF Accepted
<1>2. \A k \in A \cup W : RowOf(k).stake \in Nat /\ Payout(k) \in Nat
  BY <1>0, RowIsResult DEF BetsOf, Accepted, Result
<1>3. Staked(u) \in Nat
  <2> DEFINE f == [k \in A |-> RowOf(k).stake]
  <2>1. \A k \in A : f[k] \in Nat
    BY <1>2
  <2>2. Staked(u) = SumFunctionOnSet(f, A)
    BY DEF Staked, Accepted
  <2> HIDE DEF f, A
  <2> QED  BY <1>1, <2>1, <2>2, SumIsNat
<1>4. PaidOut(u) \in Nat
  <2> DEFINE g == [k \in W |-> Payout(k)]
  <2>1. \A k \in W : g[k] \in Nat
    BY <1>2
  <2>2. PaidOut(u) = SumFunctionOnSet(g, W)
    BY DEF PaidOut
  <2> HIDE DEF g, W
  <2> QED  BY <1>1, <2>1, <2>2, SumIsNat
<1> QED  BY <1>3, <1>4

\* A step that leaves a user's bets alone leaves the sums alone.
LEMMA SumsStay ==
    ASSUME IInv, [Next]_vars, TablesInv, NEW u
    PROVE  /\ BetsOf(u, Accepted)' = BetsOf(u, Accepted) => Staked(u)' = Staked(u)
           /\ BetsOf(u, {"WON"})' = BetsOf(u, {"WON"}) => PaidOut(u)' = PaidOut(u)
<1>1. \A k \in BetsOf(u, Accepted) \cup BetsOf(u, {"WON"}) :
        RowOf(k)' = RowOf(k) /\ Payout(k)' = Payout(k)
  BY RowStays DEF BetsOf, Accepted
<1>2. ASSUME BetsOf(u, Accepted)' = BetsOf(u, Accepted) PROVE Staked(u)' = Staked(u)
  BY <1>1, <1>2 DEF Staked, Accepted
<1>3. ASSUME BetsOf(u, {"WON"})' = BetsOf(u, {"WON"}) PROVE PaidOut(u)' = PaidOut(u)
  BY <1>1, <1>3 DEF PaidOut
<1> QED  BY <1>2, <1>3

\* A worker's commit adds one row: its stake to the sum of its user if risk
\* accepted the bet, and nothing otherwise.
LEMMA InsertExplained ==
    ASSUME IInv, GainInv, TablesInv, [Next]_vars, NEW w \in Workers, wpc[w] = "write",
           NEW m, m = Event(w), NEW k, k = m.key, KeyFree(k), Insert(w)
    PROVE  TablesInv'
<1>0. DbType /\ KafkaType /\ RowInv /\ topic' = topic
  BY TopicFixed DEF IInv, TypeOK
<1>1. /\ m \in Result /\ cur[w] \in 1..Len(topic)
      /\ k \in Keys /\ m.user \in Users /\ m.stake \in Nat /\ m.accepted \in BOOLEAN
  <2>1. m \in Result /\ cur[w] \in 1..Len(topic)
    BY EventIsResult DEF IInv, TypeOK, Processing, InTx
  <2> QED  BY <2>1 DEF Result
<1>2. /\ status[k] = "NONE"
      /\ status' = [status EXCEPT ![k] = IF m.accepted THEN "ACCEPTED" ELSE "REJECTED"]
      /\ origin' = [origin EXCEPT ![k] = cur[w]]
      /\ ledger' = [ledger EXCEPT ![m.user] = @ - (IF m.accepted THEN m.stake ELSE 0)]
  BY DEF Insert, KeyFree
<1>3. /\ RowOf(k)' = m /\ UserOf(k)' = m.user
      /\ \A j \in Keys \ {k} : /\ status'[j] = status[j]
                               /\ RowOf(j)' = RowOf(j) /\ UserOf(j)' = UserOf(j)
  <2>1. origin'[k] = cur[w] /\ \A j \in Keys \ {k} : origin'[j] = origin[j] /\ status'[j] = status[j]
    BY <1>0, <1>1, <1>2 DEF DbType
  <2> QED  BY <1>0, <2>1 DEF RowOf, UserOf, Event
<1>4. status'[k] = IF m.accepted THEN "ACCEPTED" ELSE "REJECTED"
  BY <1>0, <1>1, <1>2 DEF DbType
<1>5. IsFiniteSet({j \in Keys : status'[j] # "NONE"})
  <2>1. {j \in Keys : status'[j] # "NONE"} = {j \in Keys : status[j] # "NONE"} \cup {k}
    BY <1>1, <1>2, <1>3, <1>4
  <2>2. IsFiniteSet({j \in Keys : status[j] # "NONE"} \cup {k})
    BY FS_AddElement DEF TablesInv
  <2> QED  BY <2>1, <2>2
<1>6. \A j \in Keys : status'[j] # "NONE" => Valid(RowOf(j)')
  <2>1. Valid(m)
    BY DEF GainInv, ValidOK
  <2> QED  BY <1>3, <2>1 DEF TablesInv
<1>7. ASSUME NEW u \in Users PROVE ledger'[u] = PaidOut(u)' - Staked(u)'
  <2> DEFINE A == BetsOf(u, Accepted)
  <2>1. BetsOf(u, {"WON"})' = BetsOf(u, {"WON"})
    BY <1>1, <1>2, <1>3, <1>4 DEF BetsOf
  <2>2. PaidOut(u)' = PaidOut(u) /\ PaidOut(u) \in Nat /\ Staked(u) \in Nat
    BY <2>1, SumsStay, SumsAreNat
  <2>3. ledger[u] = PaidOut(u) - Staked(u)
    BY DEF TablesInv
  <2>4. CASE u = m.user /\ m.accepted
    <3> DEFINE f == [j \in A' |-> RowOf(j)'.stake]
               g == [j \in A |-> RowOf(j).stake]
    <3>1. A' = A \cup {k} /\ k \notin A /\ IsFiniteSet(A)
      <4>1. \A j \in Keys \ {k} : /\ status'[j] = status[j]
                                 /\ UserOf(j)' = UserOf(j)
        BY <1>3
      <4>2. status'[k] \in Accepted /\ UserOf(k)' = u /\ status[k] \notin Accepted
        BY <1>2, <1>3, <1>4, <2>4 DEF Accepted
      <4>3. "NONE" \notin Accepted
        BY DEF Accepted
      <4>4. IsFiniteSet(A)
        BY <4>3, BetsFinite
      <4>5. A' = A \cup {k} /\ k \notin A
        BY <1>1, <4>1, <4>2 DEF BetsOf
      <4> QED  BY <4>4, <4>5
    <3>2. \A j \in A : f[j] = g[j] /\ g[j] \in Nat
      <4>1. \A j \in A : j \in Keys /\ status[j] # "NONE" /\ j # k
        BY <1>2 DEF BetsOf, Accepted
      <4> QED  BY <1>0, <1>3, <3>1, <4>1, RowIsResult DEF Result
    <3>3. f[k] = m.stake
      BY <1>3, <3>1
    <3>4. Staked(u)' = SumFunctionOnSet(f, A') /\ Staked(u) = SumFunctionOnSet(g, A)
      BY DEF Staked, Accepted
    <3> HIDE DEF A, f, g
    <3>5. SumFunctionOnSet(f, A \cup {k}) = SumFunctionOnSet(f, A) + m.stake
      BY <1>1, <3>1, <3>2, <3>3, SumAdd
    <3>6. SumFunctionOnSet(f, A) = SumFunctionOnSet(g, A)
      BY <3>1, <3>2, SumSame
    <3>7. Staked(u)' = Staked(u) + m.stake
      BY <3>1, <3>4, <3>5, <3>6
    <3>8. ledger'[u] = ledger[u] - m.stake
      BY <1>0, <1>2, <2>4 DEF DbType
    <3> QED  BY <1>1, <2>2, <2>3, <3>7, <3>8
  <2>5. CASE ~(u = m.user /\ m.accepted)
    <3>1. A' = A
      BY <1>1, <1>2, <1>3, <1>4, <2>5 DEF BetsOf, Accepted
    <3>2. Staked(u)' = Staked(u)
      BY <3>1, SumsStay
    <3>3. ledger[u] \in Int /\ ledger'[u] = ledger[u]
      BY <1>0, <1>1, <1>2, <2>5 DEF DbType
    <3> QED  BY <2>2, <2>3, <3>2, <3>3
  <2> QED  BY <2>4, <2>5
<1> QED  BY <1>5, <1>6, <1>7 DEF TablesInv

\* A request's commit turns the rows it holds into won and lost ones: what it
\* adds to a user's ledger is the sum over the winners.
LEMMA SettleExplained ==
    ASSUME IInv, GainInv, TablesInv, [Next]_vars, NEW r \in Requests, CommitSettle(r)
    PROVE  TablesInv'
<1>0. DbType /\ KafkaType /\ RequestType /\ RowInv /\ RequestOK(r) /\ GainOK(r)
  BY DEF IInv, TypeOK, RequestInv, GainInv
<1>1. /\ won[r] \subseteq Held(r)
      /\ \A k \in Held(r) : k \in Keys /\ status[k] = "ACCEPTED"
  BY HeldExists
<1>2. \A k \in Keys : status'[k] = IF k \notin Held(r) THEN status[k]
                                   ELSE IF k \in won[r] THEN "WON" ELSE "LOST"
  BY DEF CommitSettle, Outcome, Held
<1>3. \A k \in Keys : UserOf(k)' = UserOf(k) /\ RowOf(k)' = RowOf(k) /\ Payout(k)' = Payout(k)
  BY TopicFixed DEF CommitSettle, UserOf, RowOf, Payout
<1>4. {k \in Keys : status'[k] # "NONE"} = {k \in Keys : status[k] # "NONE"}
  BY <1>1, <1>2
<1>5. ASSUME NEW u \in Users PROVE ledger'[u] = PaidOut(u)' - Staked(u)'
  <2> DEFINE W == BetsOf(u, {"WON"})
             V == WonBy(r, u)
             f == [k \in W' |-> Payout(k)']
             g == [k \in W |-> Payout(k)]
             h == Pay(r)
  <2>1. BetsOf(u, Accepted)' = BetsOf(u, Accepted)
    BY <1>1, <1>2, <1>3 DEF BetsOf, Accepted
  <2>2. Staked(u)' = Staked(u) /\ Staked(u) \in Nat /\ PaidOut(u) \in Nat
    BY <2>1, SumsStay, SumsAreNat
  <2>3. W' = W \cup V /\ W \cap V = {} /\ V \subseteq won[r]
    BY <1>1, <1>2, <1>3 DEF BetsOf, WonBy
  <2>4. IsFiniteSet(W) /\ IsFiniteSet(V)
    BY <1>0, <2>3, BetsFinite, FS_Subset DEF GainOK
  <2>5. /\ \A k \in W : f[k] = g[k]
        /\ \A k \in V : f[k] = h[k]
        /\ \A k \in W \cup V : f[k] \in Nat
    <3>1. \A k \in W \cup V : k \in Keys /\ status[k] # "NONE"
      BY <1>1, <2>3 DEF BetsOf
    <3>2. \A k \in W \cup V : f[k] = Payout(k) /\ Payout(k) \in Nat
      BY <1>0, <1>3, <2>3, <3>1, RowIsResult
    <3> QED  BY <2>3, <3>2 DEF Pay
  <2>6. /\ PaidOut(u)' = SumFunctionOnSet(f, W') /\ PaidOut(u) = SumFunctionOnSet(g, W)
        /\ rows[r][u] = SumFunctionOnSet(h, V)
    BY <1>0 DEF PaidOut, GainOK, RequestOK
  <2> HIDE DEF W, V, f, g, h
  <2>7. SumFunctionOnSet(f, W \cup V) = SumFunctionOnSet(f, W) + SumFunctionOnSet(f, V)
    BY <2>3, <2>4, <2>5, SumUnion
  <2>8. SumFunctionOnSet(f, W) = SumFunctionOnSet(g, W) /\ SumFunctionOnSet(f, V) = SumFunctionOnSet(h, V)
    BY <2>4, <2>5, SumSame
  <2>9. PaidOut(u)' = PaidOut(u) + rows[r][u]
    BY <2>3, <2>6, <2>7, <2>8
  <2>10. ledger'[u] = ledger[u] + rows[r][u] /\ rows[r][u] \in Nat /\ ledger[u] = PaidOut(u) - Staked(u)
    BY <1>0 DEF CommitSettle, RequestType, TablesInv
  <2> QED  BY <2>2, <2>9, <2>10
<1>6. \A k \in Keys : status'[k] # "NONE" => Valid(RowOf(k)')
  BY <1>1, <1>2, <1>3 DEF TablesInv
<1> QED  BY <1>4, <1>5, <1>6 DEF TablesInv

LEMMA TablesInit == Init => TablesInv
<1> SUFFICES ASSUME Init PROVE TablesInv
  OBVIOUS
<1>1. \A k \in Keys : status[k] = "NONE"
  BY DEF Init
<1>2. ASSUME NEW u \in Users PROVE ledger[u] = PaidOut(u) - Staked(u)
  <2>1. BetsOf(u, {"WON"}) = {} /\ BetsOf(u, Accepted) = {}
    BY <1>1 DEF BetsOf, Accepted
  <2>2. PaidOut(u) = 0 /\ Staked(u) = 0
    BY <2>1, SumEmpty DEF PaidOut, Staked, Accepted
  <2> QED  BY <2>2 DEF Init
<1>3. {k \in Keys : status[k] # "NONE"} = {}
  BY <1>1
<1> QED  BY <1>1, <1>2, <1>3, FS_EmptySet DEF TablesInv

LEMMA TablesStep == IInv /\ GainInv /\ TablesInv /\ [Next]_vars => TablesInv'
<1> SUFFICES ASSUME IInv, GainInv, TablesInv, [Next]_vars PROVE TablesInv'
  OBVIOUS
<1>1. CASE UNCHANGED db
  <2>1. topic' = topic
    BY TopicFixed
  <2>2. \A k \in Keys : UserOf(k)' = UserOf(k) /\ RowOf(k)' = RowOf(k) /\ status'[k] = status[k]
    BY <1>1, <2>1 DEF db, UserOf, RowOf
  <2>3. \A u \in Users : BetsOf(u, Accepted)' = BetsOf(u, Accepted)
                         /\ BetsOf(u, {"WON"})' = BetsOf(u, {"WON"})
    BY <2>2 DEF BetsOf
  <2>4. \A u \in Users : Staked(u)' = Staked(u) /\ PaidOut(u)' = PaidOut(u)
    BY <2>3, SumsStay
  <2> QED  BY <1>1, <2>2, <2>4 DEF TablesInv, db
<1>2. ASSUME NEW w \in Workers, wpc[w] = "write", KeyFree(Event(w).key), Insert(w)
      PROVE  TablesInv'
  <2>1. PICK m : m = Event(w)
    OBVIOUS
  <2>2. PICK k : k = m.key
    OBVIOUS
  <2> QED  BY <1>2, <2>1, <2>2, InsertExplained
<1> QED  BY <1>1, <1>2, BookSteps, SettleExplained

\* The tables' invariant holds in every reachable state.
LEMMA TablesInvariance == Spec => []TablesInv
<1>1. Init => IInv /\ GainInv /\ TablesInv
  BY Initially, GainInit, TablesInit
<1>2. IInv /\ GainInv /\ TablesInv /\ [Next]_vars => (IInv /\ GainInv /\ TablesInv)'
  BY Inductive, GainStep, TablesStep
<1> QED  BY <1>1, <1>2, PTL DEF Spec

\* For any number of workers and requests the wallets, the ledger and the bets
\* agree to the cent (worker.py:55-82, settlement.py:54-67).
THEOREM Books == Spec => []BooksBalance
<1>1. IInv /\ TablesInv => BooksBalance
  BY DEF IInv, TablesInv, BooksBalance
<1> QED  BY <1>1, Invariance, TablesInvariance, PTL

\* A payout is the exact product rounded to a cent, halves up
\* (settlement.py:27-28).
THEOREM PayoutIsRounded ==
    ASSUME NEW stake \in Nat, NEW odds \in Nat
    PROVE  /\ 2 * OddsScale * PayoutCents(stake, odds) <= 2 * (stake * odds) + OddsScale
           /\ 2 * (stake * odds) < 2 * OddsScale * PayoutCents(stake, odds) + OddsScale
<1>1. stake * odds \in Nat
  OBVIOUS
<1> QED  BY <1>1 DEF PayoutCents, OddsScale

\* Rounding never costs a winner: odds above even pay at least the stake.
THEOREM PayoutCoversStake ==
    ASSUME NEW stake \in Nat, NEW odds \in Nat, odds > OddsScale
    PROVE  PayoutCents(stake, odds) >= stake
<1> DEFINE gain == odds - OddsScale
<1>1. gain \in Nat /\ odds = OddsScale + gain
  BY DEF OddsScale
<1>2. stake * gain \in Nat
  BY <1>1
<1>3. stake * odds = stake * OddsScale + stake * gain
  BY <1>1 DEF OddsScale
<1> QED  BY <1>2, <1>3 DEF PayoutCents, OddsScale

\* No bet is won at a loss: the rows that settlement pays are those that
\* BetResultEvent let through (settlement_service/app/schemas.py:9-36).
THEOREM WinnersGain ==
    Spec => [](\A k \in Keys : status[k] = "WON" => Payout(k) >= RowOf(k).stake)
<1>1. IInv /\ TablesInv => \A k \in Keys : status[k] = "WON" => Payout(k) >= RowOf(k).stake
  <2> SUFFICES ASSUME IInv, TablesInv, NEW k \in Keys, status[k] = "WON"
               PROVE  Payout(k) >= RowOf(k).stake
    OBVIOUS
  <2>1. RowOf(k) \in Result /\ Valid(RowOf(k))
    BY RowIsResult DEF IInv, TypeOK, TablesInv
  <2>2. RowOf(k).stake \in Nat /\ RowOf(k).odds \in Nat /\ RowOf(k).odds > OddsScale
    BY <2>1 DEF Result, Valid
  <2> QED  BY <2>2, PayoutCoversStake DEF Payout
<1> QED  BY <1>1, Invariance, TablesInvariance, PTL

================================================================================
