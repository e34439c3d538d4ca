----------------------------- MODULE AgentProofs ----------------------------
(***************************************************************************)
(* Any number of eval_python calls over one store, and what crosses the    *)
(* boundary between their code and the host tools: for every way to set    *)
(* the middleware up, every set of tools, schemas and requests, every way  *)
(* to pass arguments, and every order in which legs of different calls are *)
(* executed.                                                               *)
(***************************************************************************)
EXTENDS AgentProperties, FiniteSetTheorems, TLAPS

----------------------------------------------------------------------------
(***************************************************************************)
(* The store                                                               *)
(***************************************************************************)
HasKey(c) == request[c].id # NoId

OnFile(c) == HasKey(c) /\ Key(c) \in DOMAIN store

\* What is on file is some call's own frozen VM under its own key, a call that
\* has not paused or has returned has nothing there, and from the read on a leg
\* knows whether it has something to delete.
RecordsInv ==
    /\ setup \in Setups /\ request \in Scenarios
    /\ at \in [Calls -> Stages] /\ record = [c \in Calls |-> record[c]]
    /\ store = [k \in DOMAIN store |-> store[k]]
    /\ \A k \in DOMAIN store :
          \E c \in Calls : HasKey(c) /\ k = Key(c) /\ store[k] = Record(c)
    /\ \A c \in Calls :
          /\ record[c] \in {NoRecord, Record(c)}
          /\ at[c] \in {"unused", "done"} => ~ OnFile(c)
          /\ at[c] \in {"check", "call", "finish", "delete"} =>
                (record[c] = NoRecord <=> ~ OnFile(c))

\* No two calls have a key in common.
LEMMA KeysDiffer ==
    ASSUME request \in Scenarios, NEW c \in Calls, NEW d \in Calls, c # d,
           HasKey(c), HasKey(d)
    PROVE  Key(c) # Key(d)
<1>1. request[c].id = request[d].id =>
         /\ request[c].thread # request[d].thread
         /\ "default" \notin {request[c].thread, request[d].thread}
  BY IdsAssumption DEF HasKey
<1>2. QED
  BY <1>1 DEF Key, Namespace

\* What a leg finds is nothing or its own record.
LEMMA OwnRecordLoaded ==
    ASSUME RecordsInv, NEW c \in Calls
    PROVE  LoadedRecord(c) = IF OnFile(c) THEN Record(c) ELSE NoRecord
<1>1. CASE OnFile(c)
  <2>1. PICK d \in Calls : HasKey(d) /\ Key(c) = Key(d)
                              /\ store[Key(c)] = Record(d)
    BY <1>1 DEF RecordsInv, OnFile
  <2>2. d = c
    BY <1>1, <2>1, KeysDiffer DEF RecordsInv, OnFile
  <2>3. QED
    BY <1>1, <2>1, <2>2 DEF LoadedRecord, OnFile, HasKey
<1>2. CASE ~ OnFile(c)
  BY <1>2 DEF LoadedRecord, OnFile, HasKey
<1>3. QED
  BY <1>1, <1>2

LEMMA RecordsInit == Init => RecordsInv
<1> SUFFICES ASSUME Init PROVE RecordsInv
  OBVIOUS
<1>1. DOMAIN store = {} /\ store = [k \in DOMAIN store |-> store[k]]
  BY DEF Init
<1>2. at \in [Calls -> Stages]
  BY DEF Init, Stages
<1>3. \A c \in Calls : record[c] = NoRecord /\ at[c] \in {"unused", "model"}
  BY DEF Init
<1>4. record = [c \in Calls |-> record[c]]
  BY DEF Init
<1>5. QED
  BY <1>1, <1>2, <1>3, <1>4 DEF Init, RecordsInv, OnFile

----------------------------------------------------------------------------
LEMMA RecordsStep == RecordsInv /\ [Next]_vars => RecordsInv'
<1> SUFFICES ASSUME RecordsInv, [Next]_vars PROVE RecordsInv'
  OBVIOUS
<1> USE DEF RecordsInv
<1>1. CASE UNCHANGED vars
  BY <1>1 DEF vars, HasKey, OnFile, Key, Namespace, Record
<1> SUFFICES ASSUME NEW c \in Calls, Step(c) PROVE RecordsInv'
  BY <1>1 DEF Next, AllDone
<1>2. /\ setup' = setup /\ request' = request
  BY DEF Step, AmendModelRequest, StartLeg, LoadRecord, CheckTypes, RejectCall, Interrupt,
         HumanAnswers, InvokeTool, Complete, Return
<1>3. /\ \A d \in Calls : HasKey(d)' = HasKey(d) /\ Key(d)' = Key(d)
                             /\ Record(d)' = Record(d)
  BY <1>2 DEF HasKey, Key, Namespace, Record
<1>4. ASSUME NEW stage \in Stages, Goto(c, stage)
      PROVE  /\ at' \in [Calls -> Stages] /\ at'[c] = stage
             /\ \A d \in Calls : d # c => at'[d] = at[d]
  BY <1>4 DEF Goto
<1> USE DEF Stages
\* Steps that neither read nor change the store
<1>5. ASSUME NEW stage \in Stages, Goto(c, stage), UNCHANGED <<record, store>>,
             \/ stage \in {"start", "load"}
             \/ /\ at[c] \in {"check", "call", "finish"}
                /\ stage \in {"call", "finish", "delete"}
      PROVE  RecordsInv'
  <2>1. \A d \in Calls : OnFile(d)' = OnFile(d)
    BY <1>3, <1>5 DEF OnFile
  <2>2. \A d \in Calls :
          /\ at'[d] \in {"unused", "done"} => at[d] \in {"unused", "done"}
          /\ at'[d] \in {"check", "call", "finish", "delete"} =>
                at[d] \in {"check", "call", "finish", "delete"}
    BY <1>4, <1>5
  <2>3. QED
    BY <1>2, <1>3, <1>4, <1>5, <2>1, <2>2
<1>6. CASE AmendModelRequest(c) \/ StartLeg(c)
  BY <1>5, <1>6 DEF AmendModelRequest, StartLeg
<1>7. CASE LoadRecord(c)
  <2>1. /\ Goto(c, "check") /\ store' = store
        /\ record' = [record EXCEPT ![c] = LoadedRecord(c)]
    BY <1>7 DEF LoadRecord
  <2>2. \A d \in Calls : OnFile(d)' = OnFile(d)
    BY <1>3, <2>1 DEF OnFile
  <2>3. /\ record'[c] = IF OnFile(c) THEN Record(c) ELSE NoRecord
        /\ \A d \in Calls : d # c => record'[d] = record[d]
        /\ record' = [d \in Calls |-> record'[d]]
    BY <2>1, OwnRecordLoaded
  <2>4. Record(c) # NoRecord
    BY NoRecordAssumption DEF Record
  <2>5. QED
    BY <1>2, <1>3, <1>4, <2>1, <2>2, <2>3, <2>4
<1>8. CASE CheckTypes(c)
  <2>1. \/ Goto(c, "delete")
        \/ Goto(c, "call")
    BY <1>8 DEF CheckTypes
  <2>2. at[c] = "check" /\ UNCHANGED <<record, store>>
    BY <1>8 DEF CheckTypes
  <2>3. QED
    BY <1>5, <2>1, <2>2
<1>9. CASE RejectCall(c) \/ InvokeTool(c) \/ Complete(c)
  BY <1>5, <1>9 DEF RejectCall, InvokeTool, Complete
<1>10. CASE HumanAnswers(c)
  BY <1>5, <1>10 DEF HumanAnswers
\* The record is written
<1>11. CASE Interrupt(c)
  <2>1. Goto(c, "paused") /\ UNCHANGED record /\ PersistRecord(c)
    BY <1>11 DEF Interrupt
  <2>2. CASE ~ HasKey(c)
    <3>1. store' = store
      BY <2>1, <2>2 DEF PersistRecord, HasKey
    <3>2. \A d \in Calls : OnFile(d)' = OnFile(d)
      BY <1>3, <3>1 DEF OnFile
    <3>3. QED
      BY <1>2, <1>3, <1>4, <2>1, <3>1, <3>2
  <2>3. CASE HasKey(c)
    <3>1. store' = [k \in DOMAIN store \cup {Key(c)} |->
                       IF k = Key(c) THEN Record(c) ELSE store[k]]
      BY <2>1, <2>3 DEF PersistRecord, HasKey
    <3>2. /\ store' = [k \in DOMAIN store' |-> store'[k]]
          /\ DOMAIN store' = DOMAIN store \cup {Key(c)}
          /\ store'[Key(c)] = Record(c)
          /\ \A k \in DOMAIN store \ {Key(c)} : store'[k] = store[k]
      BY <3>1
    <3>3. \A d \in Calls : d # c => OnFile(d)' = OnFile(d)
      BY <1>3, <2>3, <3>2, KeysDiffer DEF OnFile
    <3>4. ASSUME NEW k \in DOMAIN store'
          PROVE  \E d \in Calls : HasKey(d)' /\ k = Key(d)' /\ store'[k] = Record(d)'
      <4>1. CASE k = Key(c)
        BY <1>3, <2>3, <3>2, <4>1
      <4>2. CASE k # Key(c)
        BY <1>3, <3>2, <3>4, <4>2
      <4>3. QED
        BY <4>1, <4>2
    <3>5. \A d \in Calls :
            /\ record'[d] \in {NoRecord, Record(d)'}
            /\ at'[d] \in {"unused", "done"} => ~ OnFile(d)'
            /\ at'[d] \in {"check", "call", "finish", "delete"} =>
                  (record'[d] = NoRecord <=> ~ OnFile(d)')
      BY <1>3, <1>4, <2>1, <3>3
    <3>6. QED
      BY <1>2, <1>4, <2>1, <3>2, <3>4, <3>5
  <2>4. QED
    BY <2>2, <2>3
\* ... and deleted
<1>12. CASE Return(c)
  <2>1. /\ at[c] = "delete" /\ Goto(c, "done") /\ UNCHANGED record
        /\ store' = IF record[c] # NoRecord
                    THEN Restrict(store, DOMAIN store \ {Key(c)})
                    ELSE store
    BY <1>12 DEF Return, Deletes
  <2>2. CASE ~ OnFile(c)
    <3>1. store' = store
      BY <2>1, <2>2
    <3>2. \A d \in Calls : OnFile(d)' = OnFile(d)
      BY <1>3, <3>1 DEF OnFile
    <3>3. QED
      BY <1>2, <1>3, <1>4, <2>1, <2>2, <3>1, <3>2
  <2>3. CASE OnFile(c)
    <3>1. /\ store' = [k \in DOMAIN store' |-> store'[k]]
          /\ DOMAIN store' = DOMAIN store \ {Key(c)}
          /\ \A k \in DOMAIN store' : store'[k] = store[k]
      BY <2>1, <2>3 DEF Restrict
    <3>2. \A d \in Calls : d # c => OnFile(d)' = OnFile(d)
      BY <1>3, <2>3, <3>1, KeysDiffer DEF OnFile
    <3>3. ~ OnFile(c)'
      BY <1>3, <3>1 DEF OnFile
    <3>4. QED
      BY <1>2, <1>3, <1>4, <2>1, <3>1, <3>2, <3>3, SMTT(30)
  <2>4. QED
    BY <2>2, <2>3
<1>13. QED
  BY <1>6, <1>7, <1>8, <1>9, <1>10, <1>11, <1>12 DEF Step

----------------------------------------------------------------------------
LEMMA RecordsKept == Spec => []RecordsInv
BY RecordsInit, RecordsStep, PTL DEF Spec

\* However many calls share the store, and whatever namespaces their threads
\* share, a leg resumes the frozen VM of its own call or none
\* (_hitl_snapshot.py 21-36).
THEOREM NoCallResumesAnother == Spec => []OwnRecords
<1>1. RecordsInv => OwnRecords
  BY DEF RecordsInv, OwnRecords, Record
<1>2. QED
  BY <1>1, RecordsKept, PTL

\* When all calls have returned, with a result or an error, paused or not, the
\* store is as empty as it was before (README 149).
THEOREM EveryCallCleansUp == Spec => []StoreCleaned
<1>1. RecordsInv => StoreCleaned
  <2> SUFFICES ASSUME RecordsInv,
                      \A c \in Calls : at[c] \in {"unused", "done"}
               PROVE  store = <<>>
    BY DEF StoreCleaned
  <2>1. DOMAIN store = {}
    BY DEF RecordsInv, OnFile
  <2>2. QED
    BY <2>1 DEF RecordsInv
<1>2. QED
  BY <1>1, RecordsKept, PTL

----------------------------------------------------------------------------
(***************************************************************************)
(* The recursion of Without: in the list and without the members that a    *)
(* has.                                                                    *)
(***************************************************************************)
WithoutStep(a, i, kept) ==
    IF i = 0 THEN <<>>
    ELSE IF a.seq[i] \in a.S THEN kept[i - 1]
    ELSE Append(kept[i - 1], a.seq[i])

Rec == INSTANCE Recursion WITH Step <- WithoutStep

----------------------------------------------------------------------------
(***************************************************************************)
(* Places in a list                                                        *)
(***************************************************************************)
\* The first and the last of some of them
LEMMA MinIsFirst ==
    ASSUME NEW n \in Nat, NEW T \in SUBSET (1..n), T # {}
    PROVE  Min(T) \in T
<1>1. T \subseteq Nat
  OBVIOUS
<1>2. \E x \in T : \A y \in T : x <= y
  BY <1>1, Rec!LeastNumber
<1>3. QED
  BY <1>2 DEF Min

LEMMA MaxIsLast ==
    ASSUME NEW n \in Nat, NEW T \in SUBSET (1..n), T # {}
    PROVE  Max(T) \in T
<1> DEFINE U == {m \in Nat : n - m \in T}
<1>1. U \subseteq Nat /\ U # {}
  <2>1. PICK x : x \in T
    OBVIOUS
  <2>2. n - x \in Nat /\ n - (n - x) = x
    BY <2>1
  <2>3. QED
    BY <2>1, <2>2
<1> HIDE DEF U
<1>2. PICK u \in U : \A w \in U : u <= w
  BY <1>1, Rec!LeastNumber
<1>3. n - u \in T /\ u \in Nat
  BY <1>2 DEF U
<1>4. ASSUME NEW y \in T PROVE n - u >= y
  <2>1. n - y \in Nat /\ n - (n - y) = y
    OBVIOUS
  <2>2. n - y \in U
    BY <2>1 DEF U
  <2>3. u <= n - y
    BY <1>2, <2>2
  <2>4. y \in Int
    OBVIOUS
  <2>5. QED
    BY <1>3, <2>3, <2>4
<1>5. QED
  BY <1>3, <1>4 DEF Max

----------------------------------------------------------------------------
(***************************************************************************)
(* Without                                                                 *)
(***************************************************************************)
\* The first n members of seq, without those of S
KeptUpTo(seq, S, n, f) ==
    f = [i \in 0..n |-> IF i = 0 THEN <<>>
                        ELSE IF seq[i] \in S THEN f[i - 1]
                        ELSE Append(f[i - 1], seq[i])]

LEMMA KeptExists ==
    ASSUME NEW seq, NEW S, NEW n \in Nat
    PROVE  \E f : KeptUpTo(seq, S, n, f)
<1> DEFINE a == [seq |-> seq, S |-> S]
<1>1. a.seq = seq /\ a.S = S
  OBVIOUS
<1> HIDE DEF a
<1>2. Rec!LooksBack(a, n)
  BY DEF Rec!LooksBack, WithoutStep
<1>3. PICK f : Rec!Solves(a, 0..n, f)
  BY <1>2, Rec!CountExists
<1>4. KeptUpTo(seq, S, n, f)
  BY <1>1, <1>3 DEF Rec!Solves, WithoutStep, KeptUpTo
<1>5. QED
  BY <1>4

\* Without is what its last call of itself returns.
LEMMA WithoutIsLast ==
    ASSUME NEW seq, NEW S, Len(seq) \in Nat
    PROVE  \E f : KeptUpTo(seq, S, Len(seq), f) /\ Without(seq, S) = f[Len(seq)]
<1> DEFINE kept == CHOOSE f : KeptUpTo(seq, S, Len(seq), f)
<1>1. KeptUpTo(seq, S, Len(seq), kept)
  BY KeptExists
<1>2. Without(seq, S) = kept[Len(seq)]
  BY DEF Without, KeptUpTo
<1>3. QED
  BY <1>1, <1>2

\* A longer list has one member more.
LEMMA AppendAdds ==
    ASSUME NEW X, NEW s \in Seq(X), NEW x \in X
    PROVE  /\ Append(s, x) \in Seq(X)
           /\ ToSet(Append(s, x)) = ToSet(s) \cup {x}
<1>1. /\ Append(s, x) \in Seq(X) /\ Len(Append(s, x)) = Len(s) + 1
      /\ Append(s, x)[Len(s) + 1] = x
      /\ \A i \in 1..Len(s) : Append(s, x)[i] = s[i]
      /\ DOMAIN s = 1..Len(s) /\ DOMAIN Append(s, x) = 1..(Len(s) + 1)
      /\ Len(s) \in Nat
  OBVIOUS
<1>2. 1..(Len(s) + 1) = (1..Len(s)) \cup {Len(s) + 1}
  BY <1>1
<1>3. QED
  BY <1>1, <1>2 DEF ToSet

\* ... and none of them twice, if the new one is new.
LEMMA AppendNew ==
    ASSUME NEW X, NEW s \in Seq(X), IsInjective(s), NEW x \in X, x \notin ToSet(s)
    PROVE  IsInjective(Append(s, x))
<1>1. /\ Append(s, x)[Len(s) + 1] = x /\ Len(s) \in Nat
      /\ \A i \in 1..Len(s) : Append(s, x)[i] = s[i]
      /\ DOMAIN s = 1..Len(s) /\ DOMAIN Append(s, x) = 1..(Len(s) + 1)
  OBVIOUS
<1>2. \A i \in 1..(Len(s) + 1) : i \in 1..Len(s) \/ i = Len(s) + 1
  BY <1>1
<1>3. \A i \in 1..Len(s) : s[i] # x
  BY <1>1 DEF ToSet
<1>4. QED
  BY <1>1, <1>2, <1>3 DEF IsInjective

\* What is left of a list is a list, of the other members, and has none twice if
\* the list has none twice.
LEMMA WithoutLeaves ==
    ASSUME NEW seq, NEW S, IsList(seq)
    PROVE  /\ IsList(Without(seq, S))
           /\ ToSet(Without(seq, S)) = ToSet(seq) \ S
           /\ IsInjective(seq) => IsInjective(Without(seq, S))
<1> DEFINE X == ToSet(seq)
           before(m) == {seq[i] : i \in 1..m}
<1>1. seq \in Seq(X) /\ Len(seq) \in Nat /\ DOMAIN seq = 1..Len(seq)
  BY DEF IsList
<1>2. PICK f : KeptUpTo(seq, S, Len(seq), f) /\ Without(seq, S) = f[Len(seq)]
  BY <1>1, WithoutIsLast
<1>3. \A m \in 0..Len(seq) :
         f[m] = IF m = 0 THEN <<>>
                ELSE IF seq[m] \in S THEN f[m - 1] ELSE Append(f[m - 1], seq[m])
  BY <1>1, <1>2 DEF KeptUpTo
<1> DEFINE Holds(m) == /\ f[m] \in Seq(X)
                       /\ ToSet(f[m]) = before(m) \ S
                       /\ IsInjective(seq) => IsInjective(f[m])
           T == {m \in Nat : m <= Len(seq) => Holds(m)}
<1>4. 0 \in T
  <2>1. f[0] = <<>>
    BY <1>1, <1>3
  <2>2. before(0) = {} /\ ToSet(<<>>) = {}
    BY DEF ToSet
  <2>3. IsInjective(<<>>) /\ <<>> \in Seq(X)
    BY DEF IsInjective
  <2>4. QED
    BY <2>1, <2>2, <2>3
<1>5. ASSUME NEW m \in Nat, m \in T PROVE m + 1 \in T
  <2> SUFFICES ASSUME m + 1 <= Len(seq) PROVE Holds(m + 1)
    OBVIOUS
  <2>1. Holds(m)
    BY <1>1, <1>5
  <2>2. m + 1 \in 1..Len(seq) /\ (m + 1) - 1 = m /\ m + 1 # 0
    BY <1>1
  <2>3. seq[m + 1] \in X
    BY <1>1, <2>2 DEF ToSet
  <2>4. before(m + 1) = before(m) \cup {seq[m + 1]}
    <3>1. 1..(m + 1) = (1..m) \cup {m + 1}
      OBVIOUS
    <3>2. QED
      BY <3>1
  <2>5. f[m + 1] = IF seq[m + 1] \in S THEN f[m] ELSE Append(f[m], seq[m + 1])
    BY <1>3, <2>2
  <2>6. IsInjective(seq) => seq[m + 1] \notin before(m)
    BY <1>1, <2>2 DEF IsInjective
  <2> HIDE DEF before
  <2>7. CASE seq[m + 1] \in S
    BY <2>1, <2>3, <2>4, <2>5, <2>7
  <2>8. CASE seq[m + 1] \notin S
    <3>1. /\ f[m + 1] \in Seq(X)
          /\ ToSet(f[m + 1]) = ToSet(f[m]) \cup {seq[m + 1]}
      BY <2>1, <2>3, <2>5, <2>8, AppendAdds
    <3>2. IsInjective(seq) => IsInjective(f[m + 1])
      BY <2>1, <2>3, <2>5, <2>6, <2>8, AppendNew
    <3>3. QED
      BY <2>1, <2>4, <2>8, <3>1, <3>2
  <2>9. QED
    BY <2>7, <2>8
<1> HIDE DEF T
<1>6. Len(seq) \in T
  BY <1>1, <1>4, <1>5, Rec!Induction
<1>7. Holds(Len(seq))
  BY <1>1, <1>6 DEF T
<1>8. before(Len(seq)) = X
  BY <1>1 DEF ToSet
<1>9. f[Len(seq)] \in Seq(ToSet(f[Len(seq)]))
  <2> DEFINE s == f[Len(seq)]
  <2>1. s \in Seq(X)
    BY <1>7
  <2> HIDE DEF s
  <2>2. s = [i \in 1..Len(s) |-> s[i]] /\ Len(s) \in Nat /\ DOMAIN s = 1..Len(s)
    BY <2>1
  <2>3. \A i \in 1..Len(s) : s[i] \in ToSet(s)
    BY <2>2 DEF ToSet
  <2>4. s \in Seq(ToSet(s))
    BY <2>2, <2>3
  <2>5. QED
    BY <2>4 DEF s
<1>10. QED
  BY <1>2, <1>7, <1>8, <1>9 DEF IsList

\* The members before the first one to leave out stay where they are.
LEMMA WithoutKeepsFront ==
    ASSUME NEW seq, NEW S, IsList(seq), NEW k \in 0..Len(seq),
           \A i \in 1..k : seq[i] \notin S
    PROVE  /\ k <= Len(Without(seq, S))
           /\ \A i \in 1..k : Without(seq, S)[i] = seq[i]
<1> DEFINE X == ToSet(seq)
<1>1. seq \in Seq(X) /\ Len(seq) \in Nat /\ k \in Nat /\ k <= Len(seq)
  BY DEF IsList
<1>2. PICK f : KeptUpTo(seq, S, Len(seq), f) /\ Without(seq, S) = f[Len(seq)]
  BY <1>1, WithoutIsLast
<1>3. \A m \in 0..Len(seq) :
         f[m] = IF m = 0 THEN <<>>
                ELSE IF seq[m] \in S THEN f[m - 1] ELSE Append(f[m - 1], seq[m])
  BY <1>1, <1>2 DEF KeptUpTo
<1> DEFINE Holds(m) == /\ f[m] \in Seq(X)
                       /\ m <= k => Len(f[m]) = m
                       /\ m >= k => Len(f[m]) >= k
                       /\ \A i \in 1..Len(f[m]) : i <= k => f[m][i] = seq[i]
           T == {m \in Nat : m <= Len(seq) => Holds(m)}
<1>4. 0 \in T
  <2>1. f[0] = <<>>
    BY <1>1, <1>3
  <2>2. <<>> \in Seq(X) /\ Len(<<>>) = 0
    OBVIOUS
  <2>3. \A i \in 1..Len(<<>>) : FALSE
    BY <2>2
  <2> HIDE DEF X
  <2>4. /\ 0 <= k => Len(<<>>) = 0
        /\ 0 >= k => Len(<<>>) >= k
    BY <1>1, <2>2
  <2>5. QED
    BY <2>1, <2>2, <2>3, <2>4
<1>5. ASSUME NEW m \in Nat, m \in T PROVE m + 1 \in T
  <2> SUFFICES ASSUME m + 1 <= Len(seq) PROVE Holds(m + 1)
    OBVIOUS
  <2>1. Holds(m)
    BY <1>1, <1>5
  <2>2. m + 1 \in 1..Len(seq) /\ (m + 1) - 1 = m /\ m + 1 # 0
    BY <1>1
  <2>3. seq[m + 1] \in X
    BY <1>1, <2>2 DEF ToSet
  <2>4. f[m + 1] = IF seq[m + 1] \in S THEN f[m] ELSE Append(f[m], seq[m + 1])
    BY <1>3, <2>2
  <2>5. CASE seq[m + 1] \in S
    <3>1. m >= k
      BY <1>1, <2>2, <2>5
    <3>2. QED
      BY <1>1, <2>1, <2>4, <2>5, <3>1
  <2>6. CASE seq[m + 1] \notin S
    <3> DEFINE g == f[m + 1]
    <3>1. /\ g \in Seq(X) /\ Len(g) = Len(f[m]) + 1 /\ Len(f[m]) \in Nat
          /\ g[Len(f[m]) + 1] = seq[m + 1]
          /\ \A i \in 1..Len(f[m]) : g[i] = f[m][i]
      BY <2>1, <2>3, <2>4, <2>6
    <3> HIDE DEF g
    <3>2. ASSUME NEW i \in 1..Len(g), i <= k PROVE g[i] = seq[i]
      <4>1. CASE i \in 1..Len(f[m])
        BY <2>1, <3>1, <3>2, <4>1
      <4>2. CASE i = Len(f[m]) + 1
        <5>1. m < k
          BY <1>1, <2>1, <3>2, <4>2
        <5>2. QED
          BY <2>1, <3>1, <4>2, <5>1
      <4>3. QED
        BY <3>1, <3>2, <4>1, <4>2
    <3>3. /\ m + 1 <= k => Len(g) = m + 1
          /\ m + 1 >= k => Len(g) >= k
      BY <1>1, <2>1, <3>1
    <3>4. QED
      BY <3>1, <3>2, <3>3 DEF g
  <2>7. QED
    BY <2>5, <2>6
<1> HIDE DEF T
<1>6. Len(seq) \in T
  BY <1>1, <1>4, <1>5, Rec!Induction
<1>7. Holds(Len(seq))
  BY <1>1, <1>6 DEF T
<1>8. QED
  BY <1>1, <1>2, <1>7

----------------------------------------------------------------------------
(***************************************************************************)
(* The tools of a leg                                                      *)
(***************************************************************************)
\* The tool under a name of ptc is one given under that name.
LEMMA PtcToolGiven ==
    ASSUME NEW s \in Setups, NEW n \in DOMAIN PtcTools(s.ptc)
    PROVE  \E e \in GivenIn(s.ptc) : e.name = n /\ e.tool = PtcTools(s.ptc)[n]
<1> DEFINE places == {i \in DOMAIN s.ptc : ~ s.ptc[i].by_name /\ s.ptc[i].name = n}
<1>1. s.ptc \in Seq(ToSet(s.ptc))
  BY ListsAssumption DEF IsList
<1>2. /\ Len(s.ptc) \in Nat /\ DOMAIN s.ptc = 1..Len(s.ptc)
  BY <1>1
<1>3. /\ n \in {e.name : e \in {f \in ToSet(s.ptc) : ~ f.by_name}}
      /\ PtcTools(s.ptc)[n] = s.ptc[Max(places)].tool
  BY DEF PtcTools
<1>4. places # {} /\ places \in SUBSET (1..Len(s.ptc))
  BY <1>2, <1>3 DEF ToSet
<1> HIDE DEF places
<1>5. Max(places) \in places
  BY <1>2, <1>4, MaxIsLast
<1>6. QED
  BY <1>3, <1>5 DEF places, GivenIn, ToSet

\* The first bound tool of a name is a bound tool of that name.
LEMMA FirstIsBound ==
    ASSUME NEW b \in Bindings, NEW n \in {t.name : t \in ToSet(b)}
    PROVE  FirstNamed(b, n) \in ToSet(b) /\ FirstNamed(b, n).name = n
<1> DEFINE places == {i \in DOMAIN b : b[i].name = n}
<1>1. b \in Seq(ToSet(b))
  BY ListsAssumption DEF IsList
<1>2. Len(b) \in Nat /\ DOMAIN b = 1..Len(b)
  BY <1>1
<1>3. places # {} /\ places \in SUBSET (1..Len(b))
  BY <1>2 DEF ToSet
<1>4. FirstNamed(b, n) = b[Min(places)]
  BY DEF FirstNamed
<1> HIDE DEF places
<1>5. Min(places) \in places
  BY <1>2, <1>3, MinIsFirst
<1>6. QED
  BY <1>4, <1>5 DEF places, ToSet

\* A dict of tools holds known tools, under their names, that ptc allows.
LEMMA ResolvedTools ==
    ASSUME NEW s \in Setups, NEW b \in Bindings,
           NEW n \in DOMAIN ResolveHostTools(b, s.ptc)
    PROVE  /\ ResolveHostTools(b, s.ptc)[n] \in KnownTools
           /\ n \in Allowlist(s.ptc)
<1> DEFINE names == DOMAIN PtcTools(s.ptc) \ {"eval_python"}
           given == Restrict(PtcTools(s.ptc), names)
           found == ({t.name : t \in ToSet(b)} \cap Allowlist(s.ptc))
                       \ ({"eval_python"} \cup DOMAIN given)
           late == [m \in found |-> FirstNamed(b, m)]
<1>1. ResolveHostTools(b, s.ptc) = Merge(given, late)
  BY DEF ResolveHostTools
<1>2. DOMAIN given = names /\ \A m \in names : given[m] = PtcTools(s.ptc)[m]
  BY DEF Restrict
<1>3. DOMAIN late = found /\ \A m \in found : late[m] = FirstNamed(b, m)
  OBVIOUS
<1> HIDE DEF given, late
<1>4. /\ n \in names \cup found
      /\ ResolveHostTools(b, s.ptc)[n] =
            IF n \in names THEN PtcTools(s.ptc)[n] ELSE FirstNamed(b, n)
  BY <1>1, <1>2, <1>3 DEF Merge
<1>5. CASE n \in names
  <2>1. PICK e \in GivenIn(s.ptc) : e.name = n /\ e.tool = PtcTools(s.ptc)[n]
    BY <1>5, PtcToolGiven
  <2>2. e.tool \in KnownTools
    <3>1. e.tool \in GivenTools(s)
      BY DEF GivenTools
    <3>2. QED
      BY <3>1 DEF KnownTools
  <2>3. n \in Allowlist(s.ptc)
    BY <2>1 DEF Allowlist, GivenIn
  <2>4. QED
    BY <1>4, <1>5, <2>1, <2>2, <2>3
<1>6. CASE n \notin names
  BY <1>4, <1>6, FirstIsBound DEF KnownTools
<1>7. QED
  BY <1>5, <1>6

----------------------------------------------------------------------------
(***************************************************************************)
(* From the resolution on, a leg has the tools of its binding.  What a     *)
(* tool is invoked with is made of the host call and the tool's schema;    *)
(* checked code has passed, or its call ends without a tool.               *)
(***************************************************************************)
Resolved(c) ==
    bound[c] \in Bindings /\ tools[c] = ResolveHostTools(bound[c], setup.ptc)

Passes(c, stubs) == TypeChecks(request[c].name, request[c].call, stubs)

HandedOver(c, tool) ==
    BuildToolCall(tool, NormalizeCallArgs(request[c].call, tool))

Refused(c) == result[c] = Failure("TypeCheckError")

Crosses(c) ==
    /\ at[c] \notin {"unused", "model", "start"} => Resolved(c)
    /\ Invoked(c) => /\ at[c] \in {"finish", "delete", "done"}
                     /\ request[c].name \in DOMAIN tools[c]
                     /\ received[c] = HandedOver(c, tools[c][request[c].name])
    /\ Refused(c) => /\ at[c] \in {"delete", "done"}
                     /\ checked[c] = RenderTypeStubs(tools[c], setup.ptc)
                     /\ ~ Passes(c, checked[c])
    /\ \/ checked[c] = Unchecked
       \/ Passes(c, checked[c])
       \/ Refused(c) /\ ~ Invoked(c)

CrossingInv ==
    /\ tools = [c \in Calls |-> tools[c]] /\ bound = [c \in Calls |-> bound[c]]
    /\ received = [c \in Calls |-> received[c]]
    /\ checked = [c \in Calls |-> checked[c]]
    /\ result = [c \in Calls |-> result[c]]
    /\ \A c \in Calls : Crosses(c)

\* A leg runs the code of its call, frozen or not.
LEMMA OwnCode ==
    ASSUME RecordsInv, NEW c \in Calls
    PROVE  Running(c) = request[c]
BY DEF RecordsInv, Running, Record

LEMMA CrossingInit == Init => CrossingInv
<1> SUFFICES ASSUME Init PROVE CrossingInv
  OBVIOUS
<1>1. /\ tools = [c \in Calls |-> tools[c]] /\ bound = [c \in Calls |-> bound[c]]
      /\ received = [c \in Calls |-> received[c]]
      /\ checked = [c \in Calls |-> checked[c]]
      /\ result = [c \in Calls |-> result[c]]
  BY DEF Init
<1>2. ASSUME NEW c \in Calls
      PROVE  /\ at[c] \in {"unused", "model"} /\ received[c] = NotInvoked
             /\ checked[c] = Unchecked /\ result[c] = NoResult
  BY DEF Init
<1>3. Failure("TypeCheckError") # NoResult
  BY DEF Failure, NoResult
<1>4. QED
  BY <1>1, <1>2, <1>3 DEF CrossingInv, Crosses, Invoked, Refused

LEMMA CrossingStep == RecordsInv /\ CrossingInv /\ [Next]_vars => CrossingInv'
<1> SUFFICES ASSUME RecordsInv, CrossingInv, [Next]_vars PROVE CrossingInv'
  OBVIOUS
<1>1. CASE UNCHANGED vars
  BY <1>1 DEF vars, CrossingInv, Crosses, Resolved, Passes, HandedOver, Refused,
              Invoked
<1> SUFFICES ASSUME NEW c \in Calls, Step(c) PROVE CrossingInv'
  BY <1>1 DEF Next, AllDone
<1> USE DEF Stages
<1>2. setup' = setup /\ request' = request
  BY DEF Step, AmendModelRequest, StartLeg, LoadRecord, CheckTypes, RejectCall, Interrupt,
         HumanAnswers, InvokeTool, Complete, Return
<1>3. /\ at \in [Calls -> Stages]
      /\ \A d \in Calls : Crosses(d)
      /\ tools = [d \in Calls |-> tools[d]] /\ bound = [d \in Calls |-> bound[d]]
      /\ received = [d \in Calls |-> received[d]]
      /\ checked = [d \in Calls |-> checked[d]]
      /\ result = [d \in Calls |-> result[d]]
  BY DEF RecordsInv, CrossingInv
\* A step is about one call
<1>4. /\ tools' = [d \in Calls |-> tools'[d]] /\ bound' = [d \in Calls |-> bound'[d]]
      /\ received' = [d \in Calls |-> received'[d]]
      /\ checked' = [d \in Calls |-> checked'[d]]
      /\ result' = [d \in Calls |-> result'[d]]
      /\ \A d \in Calls \ {c} :
            /\ at'[d] = at[d] /\ tools'[d] = tools[d] /\ bound'[d] = bound[d]
            /\ received'[d] = received[d] /\ checked'[d] = checked[d]
            /\ result'[d] = result[d]
  <2>1. CASE AmendModelRequest(c) \/ StartLeg(c) \/ LoadRecord(c)
    BY <1>3, <2>1 DEF AmendModelRequest, StartLeg, LoadRecord, Goto
  <2>2. CASE CheckTypes(c)
    BY <1>3, <2>2 DEF CheckTypes, Goto
  <2>3. CASE RejectCall(c) \/ Interrupt(c) \/ HumanAnswers(c)
    BY <1>3, <2>3 DEF RejectCall, Interrupt, HumanAnswers, Goto
  <2>4. CASE InvokeTool(c)
    BY <1>3, <2>4 DEF InvokeTool, Goto
  <2>5. CASE Complete(c) \/ Return(c)
    BY <1>3, <2>5 DEF Complete, Return, Goto
  <2>6. QED
    BY <2>1, <2>2, <2>3, <2>4, <2>5 DEF Step
<1>5. ASSUME NEW d \in Calls, d # c PROVE Crosses(d)'
  BY <1>2, <1>3, <1>4, <1>5 DEF Crosses, Resolved, Passes, HandedOver, Refused,
                                Invoked
<1>6. Crosses(c)'
  <2>1. Crosses(c)
    BY <1>3
  \* Stages that move on without a tool or a result
  <2>2. ASSUME NEW stage \in Stages, Goto(c, stage),
               UNCHANGED <<bound, tools, received, checked, result>>,
               stage = "start" \/ at[c] \notin {"unused", "model", "start"},
               \/ ~ Invoked(c) /\ ~ Refused(c)
               \/ stage \in {"delete", "done"}
        PROVE  Crosses(c)'
    <3>1. at'[c] = stage
      BY <1>3, <2>2 DEF Goto
    <3>2. /\ Resolved(c)' <=> Resolved(c)
          /\ Invoked(c)' <=> Invoked(c)
          /\ Refused(c)' <=> Refused(c)
      BY <1>2, <2>2 DEF Resolved, Invoked, Refused
    <3>3. \A stubs : Passes(c, stubs)' <=> Passes(c, stubs)
      BY <1>2 DEF Passes
    <3>4. \A tool : HandedOver(c, tool)' = HandedOver(c, tool)
      BY <1>2 DEF HandedOver
    <3>5. QED
      BY <1>2, <2>1, <2>2, <3>1, <3>2, <3>3, <3>4 DEF Crosses
  <2>3. CASE StartLeg(c)
    <3>1. at[c] = "start" /\ at'[c] = "load"
      BY <1>3, <2>3 DEF StartLeg, Goto
    <3>2. ~ Invoked(c) /\ ~ Refused(c)
      BY <2>1, <3>1 DEF Crosses
    <3>3. /\ ~ Invoked(c)' /\ ~ Refused(c)' /\ checked' = checked
      BY <2>3, <3>2 DEF StartLeg, Invoked, Refused
    <3>4. Resolved(c)'
      BY <1>2, <1>3, <2>3 DEF StartLeg, Resolved
    <3>5. Passes(c, checked[c])' <=> Passes(c, checked[c])
      BY <1>2, <3>3 DEF Passes
    <3>6. QED
      BY <2>1, <3>1, <3>2, <3>3, <3>4, <3>5 DEF Crosses
  <2>4. CASE CheckTypes(c)
    <3>1. at[c] = "check" /\ ~ Invoked(c) /\ ~ Refused(c) /\ Resolved(c)
      BY <2>1, <2>4 DEF CheckTypes, Crosses
    <3> DEFINE stubs == RenderTypeStubs(tools[c], setup.ptc)
    <3>2. /\ UNCHANGED <<bound, tools, received>>
          /\ checked'[c] = IF MustCheck(c) THEN stubs ELSE checked[c]
      BY <1>3, <2>4 DEF CheckTypes
    <3>3. /\ Resolved(c)' /\ ~ Invoked(c)' /\ stubs' = stubs
      BY <1>2, <3>1, <3>2 DEF Resolved, Invoked
    <3>4. /\ Passes(c, stubs)' <=> Passes(c, stubs)
          /\ Passes(c, checked[c])' <=> Passes(c, checked'[c])
      BY <1>2, <3>3 DEF Passes
    <3>5. CASE MustCheck(c) /\ ~ Passes(c, stubs)
      <4>1. /\ at'[c] = "delete" /\ result'[c] = Failure("TypeCheckError")
        BY <1>3, <2>4, <3>5 DEF CheckTypes, Goto, Passes
      <4>2. Refused(c)'
        BY <4>1 DEF Refused
      <4>3. checked'[c] = stubs'
        BY <3>2, <3>3, <3>5
      <4> HIDE DEF stubs
      <4>4. ~ Passes(c, checked[c])'
        BY <3>2, <3>4, <3>5
      <4>5. QED
        BY <3>3, <4>1, <4>2, <4>3, <4>4 DEF Crosses, stubs
    <3>6. CASE ~ (MustCheck(c) /\ ~ Passes(c, stubs))
      <4>1. /\ at'[c] = "call" /\ result' = result
        BY <1>3, <2>4, <3>6 DEF CheckTypes, Goto, Passes
      <4>2. ~ Refused(c)'
        BY <3>1, <4>1 DEF Refused
      <4>3. checked'[c] = Unchecked \/ Passes(c, checked'[c])
        BY <2>1, <3>1, <3>2, <3>6 DEF Crosses
      <4>4. QED
        BY <3>3, <3>4, <4>1, <4>2, <4>3 DEF Crosses
    <3>7. QED
      BY <3>5, <3>6
  <2>5. CASE \/ AmendModelRequest(c) \/ LoadRecord(c) \/ RejectCall(c)
             \/ Interrupt(c) \/ HumanAnswers(c)
    <3>1. /\ at[c] \in {"model", "load", "call", "paused"}
          /\ UNCHANGED <<bound, tools, received, checked, result>>
          /\ \/ Goto(c, "check") \/ Goto(c, "finish") \/ Goto(c, "paused")
             \/ Goto(c, "start")
          /\ at[c] = "model" => Goto(c, "start")
      BY <2>5 DEF AmendModelRequest, LoadRecord, RejectCall, Interrupt, HumanAnswers
    <3>2. ~ Invoked(c) /\ ~ Refused(c)
      BY <2>1, <3>1 DEF Crosses
    <3>3. QED
      BY <2>2, <3>1, <3>2
  <2>6. CASE InvokeTool(c)
    <3>1. /\ at[c] = "call" /\ at'[c] = "finish"
          /\ UNCHANGED <<bound, tools, checked, result>>
      BY <1>3, <2>6 DEF InvokeTool, Goto
    <3>2. ~ Invoked(c) /\ ~ Refused(c) /\ Resolved(c)
      BY <2>1, <3>1 DEF Crosses
    <3>3. /\ request[c].name \in DOMAIN tools[c]
          /\ received'[c] = HandedOver(c, tools[c][request[c].name])
      BY <1>3, <2>6, OwnCode DEF InvokeTool, HostTool, HandedOver
    <3>4. Resolved(c)' /\ ~ Refused(c)'
      BY <1>2, <3>1, <3>2 DEF Resolved, Refused
    <3>5. /\ Passes(c, checked[c])' <=> Passes(c, checked[c])
          /\ received'[c] = HandedOver(c, tools[c][request[c].name])'
      BY <1>2, <3>1, <3>3 DEF Passes, HandedOver
    <3>6. QED
      BY <1>2, <2>1, <3>1, <3>2, <3>3, <3>4, <3>5 DEF Crosses
  <2>7. CASE Complete(c)
    <3>1. /\ at[c] = "finish" /\ at'[c] = "delete"
          /\ UNCHANGED <<bound, tools, received, checked>>
          /\ \/ result'[c] = Failure("RuntimeError")
             \/ \E v : result'[c] = Success(v)
      BY <1>3, <2>7 DEF Complete, Goto
    <3>2. ~ Refused(c)'
      <4>1. /\ Failure("RuntimeError").error = "RuntimeError"
            /\ \A v : Success(v).error = "none"
        BY DEF Failure, Success
      <4>2. result'[c].error # "TypeCheckError"
        BY <3>1, <4>1
      <4>3. QED
        BY <4>2 DEF Refused, Failure
    <3>3. Resolved(c) /\ ~ Refused(c)
      BY <2>1, <3>1 DEF Crosses
    <3>4. Resolved(c)' /\ (Invoked(c)' <=> Invoked(c))
      BY <1>2, <3>1, <3>3 DEF Resolved, Invoked
    <3>5. /\ Passes(c, checked[c])' <=> Passes(c, checked[c])
          /\ HandedOver(c, tools[c][request[c].name])'
                = HandedOver(c, tools[c][request[c].name])
      BY <1>2, <3>1 DEF Passes, HandedOver
    <3>6. QED
      BY <1>2, <2>1, <3>1, <3>2, <3>3, <3>4, <3>5 DEF Crosses
  <2>8. CASE Return(c)
    BY <2>2, <2>8 DEF Return
  <2>9. QED
    BY <2>3, <2>4, <2>5, <2>6, <2>7, <2>8 DEF Step
<1>7. QED
  BY <1>4, <1>5, <1>6 DEF CrossingInv

LEMMA CrossingKept == Spec => [](RecordsInv /\ CrossingInv)
<1>1. Init => RecordsInv /\ CrossingInv
  BY RecordsInit, CrossingInit
<1>2. (RecordsInv /\ CrossingInv) /\ [Next]_vars => (RecordsInv /\ CrossingInv)'
  BY RecordsStep, CrossingStep
<1>3. QED
  BY <1>1, <1>2, PTL DEF Spec

\* An invoked tool is a known one, and what it got is made from its schema.
LEMMA InvokedTool ==
    ASSUME RecordsInv, CrossingInv, NEW c \in Calls, Invoked(c)
    PROVE  /\ HostTool(c) \in KnownTools
           /\ received[c] = HandedOver(c, HostTool(c))
           /\ Running(c) = request[c]
<1>1. /\ at[c] \in {"finish", "delete", "done"} /\ Crosses(c)
      /\ request[c].name \in DOMAIN tools[c] /\ setup \in Setups
  BY DEF CrossingInv, Crosses, RecordsInv
<1>2. Running(c) = request[c]
  BY OwnCode
<1>3. Resolved(c)
  BY <1>1 DEF Crosses
<1>4. tools[c][request[c].name] \in KnownTools
  BY <1>1, <1>3, ResolvedTools DEF Resolved
<1>5. QED
  BY <1>1, <1>2, <1>4 DEF Crosses, HostTool

----------------------------------------------------------------------------
(***************************************************************************)
(* Arguments                                                               *)
(***************************************************************************)
\* The parameters that the model fills in, and the slots of positional values
LEMMA Slots ==
    ASSUME NEW tool \in KnownTools
    PROVE  /\ IsList(Args(tool)) /\ IsList(VisibleSchemaFields(tool))
           /\ ToSet(Args(tool)) = ToSet(tool.fields) \ tool.hidden
           /\ ToSet(VisibleSchemaFields(tool))
                 = ToSet(Args(tool)) \ INJECTED_PARAM_NAMES
           /\ IsInjective(Args(tool)) /\ IsInjective(VisibleSchemaFields(tool))
<1>1. IsList(tool.fields) /\ IsInjective(tool.fields)
  BY ListsAssumption, SchemasAssumption
<1>2. /\ IsList(Args(tool)) /\ IsInjective(Args(tool))
      /\ ToSet(Args(tool)) = ToSet(tool.fields) \ tool.hidden
  BY <1>1, WithoutLeaves DEF Args
<1>3. QED
  BY <1>2, WithoutLeaves DEF VisibleSchemaFields

\* What the code passes never has the name of an injected value.
LEMMA NothingForged ==
    ASSUME NEW tool \in KnownTools, NEW call
    PROVE  DOMAIN NormalizeCallArgs(call, tool) \cap INJECTED_PARAM_NAMES = {}
<1> DEFINE slots == VisibleSchemaFields(tool)
           filled == {slots[i] : i \in DOMAIN slots \cap DOMAIN call.args}
<1>1. filled \cap INJECTED_PARAM_NAMES = {}
  BY Slots DEF ToSet
<1>2. DOMAIN StripInjected(call.kwargs) \cap INJECTED_PARAM_NAMES = {}
  BY DEF StripInjected, Restrict
<1>3. \A v, yes : /\ DOMAIN Entry("args", v, yes) \subseteq {"args"}
                  /\ "args" \notin INJECTED_PARAM_NAMES
  BY DEF Entry, INJECTED_PARAM_NAMES
<1>4. DOMAIN NormalizeCallArgs(call, tool)
         \subseteq DOMAIN StripInjected(call.kwargs) \cup {"args"} \cup filled
  BY <1>3 DEF NormalizeCallArgs, Merge
<1>5. QED
  BY <1>1, <1>2, <1>3, <1>4

\* What a tool gets is the injected values and what the code passes.
LEMMA ToolCall ==
    ASSUME NEW tool, NEW kwargs, DOMAIN kwargs \cap INJECTED_PARAM_NAMES = {}
    PROVE  LET sent == BuildToolCall(tool, kwargs)
           IN  /\ DOMAIN sent \ INJECTED_PARAM_NAMES = DOMAIN kwargs
               /\ \A p \in DOMAIN kwargs : sent[p] = kwargs[p]
               /\ \A p \in DOMAIN sent \cap INJECTED_PARAM_NAMES :
                     sent[p] \in {Live, OwnCallId}
               /\ DOMAIN InjectedArgsFor(tool) \subseteq DOMAIN sent
<1> DEFINE injected == InjectedArgsFor(tool)
           id == Entry("tool_call_id", OwnCallId, "tool_call_id" \in tool.hidden)
<1>1. /\ DOMAIN injected \subseteq INJECTED_PARAM_NAMES
      /\ \A p \in DOMAIN injected : injected[p] = Live
  BY DEF InjectedArgsFor, INJECTED_PARAM_NAMES
<1>2. /\ DOMAIN id \subseteq INJECTED_PARAM_NAMES
      /\ \A p \in DOMAIN id : id[p] = OwnCallId
  BY DEF Entry, INJECTED_PARAM_NAMES
<1>3. BuildToolCall(tool, kwargs) = Merge(injected, Merge(kwargs, id))
  BY DEF BuildToolCall
<1> HIDE DEF injected, id
<1> DEFINE rest == Merge(kwargs, id)
           sent == Merge(injected, rest)
<1>4. /\ DOMAIN rest = DOMAIN kwargs \cup DOMAIN id
      /\ \A p \in DOMAIN kwargs : rest[p] = kwargs[p]
      /\ \A p \in DOMAIN id \ DOMAIN kwargs : rest[p] = id[p]
  BY DEF Merge
<1> HIDE DEF rest
<1>5. /\ DOMAIN sent = DOMAIN injected \cup DOMAIN rest
      /\ \A p \in DOMAIN injected : sent[p] = injected[p]
      /\ \A p \in DOMAIN rest \ DOMAIN injected : sent[p] = rest[p]
  BY DEF Merge
<1> HIDE DEF sent
<1>6. DOMAIN sent \ INJECTED_PARAM_NAMES = DOMAIN kwargs
  BY <1>1, <1>2, <1>4, <1>5
<1>7. \A p \in DOMAIN kwargs : sent[p] = kwargs[p]
  BY <1>1, <1>4, <1>5
<1>8. \A p \in DOMAIN sent \cap INJECTED_PARAM_NAMES : sent[p] \in {Live, OwnCallId}
  BY <1>1, <1>2, <1>4, <1>5
<1>9. QED
  BY <1>3, <1>5, <1>6, <1>7, <1>8 DEF injected, sent, rest

\* Whatever the code passes, in whatever way a tool declares its parameters: no
\* value of an injected parameter comes from the code, and the slots for the
\* runtime, its state and its store are filled (README 105, _bridge.py 49-94).
THEOREM NothingIsForged == Spec => []InjectedAreLive
<1>1. RecordsInv /\ CrossingInv => InjectedAreLive
  <2> SUFFICES ASSUME RecordsInv, CrossingInv, NEW c \in Calls, Invoked(c)
               PROVE  /\ \A p \in DOMAIN received[c] \cap INJECTED_PARAM_NAMES :
                            received[c][p] \in {Live, OwnCallId}
                      /\ (HostTool(c).keys \cup HostTool(c).hidden)
                            \cap {"runtime", "state", "store"}
                         \subseteq DOMAIN received[c]
    BY DEF InjectedAreLive
  <2> DEFINE tool == HostTool(c)
             kwargs == NormalizeCallArgs(request[c].call, tool)
  <2>1. tool \in KnownTools /\ received[c] = BuildToolCall(tool, kwargs)
    BY InvokedTool DEF HandedOver
  <2>2. DOMAIN kwargs \cap INJECTED_PARAM_NAMES = {}
    BY <2>1, NothingForged
  <2>3. tool.hidden \subseteq ToSet(tool.fields) \ ToSet(Args(tool))
    BY <2>1, Slots, SchemasAssumption
  <2>4. (tool.keys \cup tool.hidden) \cap {"runtime", "state", "store"}
           \subseteq DOMAIN InjectedArgsFor(tool)
    BY <2>3 DEF InjectedArgsFor, INJECTED_PARAM_NAMES
  <2> DEFINE sent == BuildToolCall(tool, kwargs)
  <2> HIDE DEF tool, kwargs
  <2>5. /\ \A p \in DOMAIN sent \cap INJECTED_PARAM_NAMES :
              sent[p] \in {Live, OwnCallId}
        /\ DOMAIN InjectedArgsFor(tool) \subseteq DOMAIN sent
    BY <2>2, ToolCall
  <2> HIDE DEF sent
  <2>6. received[c] = sent
    BY <2>1 DEF sent
  <2>7. QED
    BY <2>4, <2>5, <2>6 DEF tool
<1>2. QED
  BY <1>1, CrossingKept, PTL

\* Arguments that fit the parameters are handed on as Python would bind them, but
\* for keywords with the name of an injected value.
LEMMA BoundAsPassed ==
    ASSUME NEW tool \in KnownTools, NEW call, IsList(call.args),
           Binds(call, Args(tool), tool.optional), PositionsOrdinary(call, tool)
    PROVE  NormalizeCallArgs(call, tool) = Ordinarily(Bound(call, Args(tool)))
<1> DEFINE params == Args(tool)
           slots == VisibleSchemaFields(tool)
           k == Len(call.args)
           passed == {params[i] : i \in DOMAIN call.args}
           filled == {slots[i] : i \in DOMAIN slots \cap DOMAIN call.args}
           value == [p \in passed |->
                        call.args[CHOOSE i \in DOMAIN params : params[i] = p]]
           placed == [p \in filled |->
                         call.args[CHOOSE i \in DOMAIN slots : slots[i] = p]]
<1>1. /\ IsList(params) /\ IsList(slots)
      /\ IsInjective(params) /\ IsInjective(slots)
  BY Slots
<1>2. /\ Len(params) \in Nat /\ DOMAIN params = 1..Len(params)
      /\ Len(slots) \in Nat /\ DOMAIN slots = 1..Len(slots)
      /\ k \in Nat /\ DOMAIN call.args = 1..k
  BY <1>1 DEF IsList
<1>3. k <= Len(params)
  BY DEF Binds
<1>4. \A i \in 1..k : params[i] \notin INJECTED_PARAM_NAMES
  BY <1>2, <1>3 DEF PositionsOrdinary
\* The slots of the values are the first parameters
<1>5. k <= Len(slots) /\ \A i \in 1..k : slots[i] = params[i]
  <2>1. slots = Without(params, INJECTED_PARAM_NAMES)
    BY DEF VisibleSchemaFields
  <2>2. k \in 0..Len(params)
    BY <1>2, <1>3
  <2> HIDE DEF params, slots, k
  <2>3. QED
    BY <1>1, <1>4, <2>1, <2>2, WithoutKeepsFront
<1> DEFINE extra == SubSeq(call.args, Len(slots) + 1, Len(call.args))
           entry == Entry("args", extra, Len(call.args) > Len(slots))
<1>6. NormalizeCallArgs(call, tool)
         = Merge(StripInjected(call.kwargs), Merge(entry, placed))
  BY DEF NormalizeCallArgs
<1>7. Bound(call, params) = Merge(call.kwargs, value)
  BY DEF Bound
<1> HIDE DEF params, slots, k
<1>8. filled = passed /\ passed \cap INJECTED_PARAM_NAMES = {}
  BY <1>2, <1>4, <1>5
<1>9. ASSUME NEW p \in passed PROVE placed[p] = value[p]
  <2>1. PICK i \in 1..k : params[i] = p
    BY <1>2, <1>9
  <2>2. i \in DOMAIN params /\ i \in DOMAIN slots /\ slots[i] = p
    BY <1>2, <1>3, <1>5, <2>1
  <2>3. /\ (CHOOSE j \in DOMAIN params : params[j] = p) = i
        /\ (CHOOSE j \in DOMAIN slots : slots[j] = p) = i
    BY <1>1, <2>1, <2>2 DEF IsInjective
  <2>4. QED
    BY <1>8, <1>9, <2>3
<1>10. DOMAIN entry = {}
  BY <1>2, <1>5 DEF Entry, k
<1>11. DOMAIN value = passed /\ DOMAIN placed = passed
  BY <1>8
<1> HIDE DEF value, placed, entry, filled, passed
<1>12. Merge(entry, placed) = [p \in passed |-> value[p]]
  BY <1>9, <1>10, <1>11 DEF Merge
<1> DEFINE named == DOMAIN call.kwargs \ INJECTED_PARAM_NAMES
<1>13. StripInjected(call.kwargs) = [p \in named |-> call.kwargs[p]]
  BY DEF StripInjected, Restrict
<1> DEFINE both == [p \in named \cup passed |->
                       IF p \in named THEN call.kwargs[p] ELSE value[p]]
<1>14. NormalizeCallArgs(call, tool) = both
  BY <1>6, <1>12, <1>13 DEF Merge
<1>15. Ordinarily(Merge(call.kwargs, value)) = both
  <2>1. (DOMAIN call.kwargs \cup passed) \ INJECTED_PARAM_NAMES
           = named \cup passed
    BY <1>8
  <2>2. /\ DOMAIN Merge(call.kwargs, value) = DOMAIN call.kwargs \cup passed
        /\ \A p \in DOMAIN call.kwargs \cup passed :
              Merge(call.kwargs, value)[p]
                 = IF p \in DOMAIN call.kwargs THEN call.kwargs[p] ELSE value[p]
    BY <1>11 DEF Merge
  <2>3. \A p \in passed : p \in DOMAIN call.kwargs => p \in named
    BY <1>8
  <2>4. QED
    BY <2>1, <2>2, <2>3 DEF Ordinarily, Restrict
<1>16. QED
  BY <1>7, <1>14, <1>15 DEF params

\* For every schema and every way to pass arguments, but for positional values of
\* parameters that have the name of an injected one: a call that the static check
\* has let through reaches its tool with each value in the parameter where Python
\* puts it, and with nothing else but injected values (_tool_rendering.py 15-37,
\* 147-181).
THEOREM CheckedCallsArrive == Spec => []ArgumentsArrive
<1>1. RecordsInv /\ CrossingInv => ArgumentsArrive
  <2> SUFFICES ASSUME RecordsInv, CrossingInv, NEW c \in Calls, CheckedFor(c),
                      PositionsOrdinary(Running(c).call, HostTool(c))
               PROVE  /\ Binds(Running(c).call, Args(HostTool(c)),
                               HostTool(c).optional)
                      /\ Ordinarily(received[c])
                            = Ordinarily(Bound(Running(c).call, Args(HostTool(c))))
    BY DEF ArgumentsArrive
  <2> DEFINE tool == HostTool(c)
             call == request[c].call
             kwargs == NormalizeCallArgs(call, tool)
  <2>1. Invoked(c) /\ checked[c] # Unchecked /\ Crosses(c)
    BY DEF CheckedFor, CrossingInv
  <2>2. /\ tool \in KnownTools /\ received[c] = BuildToolCall(tool, kwargs)
        /\ Running(c) = request[c]
    BY <2>1, InvokedTool DEF HandedOver
  <2>3. checked[c][request[c].name] = Signature(tool)
    BY <2>2 DEF CheckedFor
  <2>4. Passes(c, checked[c])
    BY <2>1 DEF Crosses
  <2>5. Binds(call, Args(tool), Optional(tool))
    BY <2>3, <2>4 DEF Passes, TypeChecks, Signature
  <2>6. Optional(tool) \subseteq tool.optional
    BY <2>2, SchemasAssumption DEF Optional, IsRequired
  <2>7. Binds(call, Args(tool), tool.optional)
    BY <2>5, <2>6 DEF Binds
  <2>8. IsList(call.args)
    BY ListsAssumption DEF RecordsInv
  <2>9. PositionsOrdinary(call, tool)
    BY <2>2
  <2>10. kwargs = Ordinarily(Bound(call, Args(tool)))
    BY <2>2, <2>7, <2>8, <2>9, BoundAsPassed
  <2>11. DOMAIN kwargs \cap INJECTED_PARAM_NAMES = {}
    BY <2>2, NothingForged
  <2>12. kwargs = [p \in DOMAIN kwargs |-> kwargs[p]]
    BY <2>10 DEF Ordinarily, Restrict
  <2> HIDE DEF kwargs, tool, call
  <2>13. /\ DOMAIN received[c] \ INJECTED_PARAM_NAMES = DOMAIN kwargs
         /\ \A p \in DOMAIN kwargs : received[c][p] = kwargs[p]
    <3> DEFINE sent == BuildToolCall(tool, kwargs)
    <3>1. /\ DOMAIN sent \ INJECTED_PARAM_NAMES = DOMAIN kwargs
          /\ \A p \in DOMAIN kwargs : sent[p] = kwargs[p]
      BY <2>11, ToolCall
    <3>2. QED
      BY <2>2, <3>1
  <2>14. Ordinarily(received[c]) = kwargs
    BY <2>12, <2>13 DEF Ordinarily, Restrict
  <2>15. QED
    BY <2>2, <2>7, <2>10, <2>14 DEF tool, call
<1>2. QED
  BY <1>1, CrossingKept, PTL

\* Whatever tools are allowed: the static check rejects a call that the tool would
\* take only if some stub is no Python, or the schema of this tool hides a default
\* (_tool_rendering.py 36, 85-113).
THEOREM NoValidCallIsRefused == Spec => []ValidCallsPass
<1>1. RecordsInv /\ CrossingInv => ValidCallsPass
  <2> SUFFICES ASSUME RecordsInv, CrossingInv, NEW c \in Calls,
                      ValidCallRefused(c), StubsParse(checked[c]),
                      DefaultsShown(tools[c][request[c].name])
               PROVE  FALSE
    BY DEF ValidCallsPass
  <2> DEFINE name == request[c].name
             call == request[c].call
             tool == tools[c][name]
             stubs == RenderTypeStubs(tools[c], setup.ptc)
  <2>1. /\ Refused(c) /\ name \in DOMAIN tools[c]
        /\ Binds(call, Args(tool), tool.optional)
    BY DEF ValidCallRefused, Refused
  <2>2. /\ checked[c] = stubs /\ ~ Passes(c, stubs) /\ Resolved(c)
        /\ setup \in Setups /\ request \in Scenarios
    BY <2>1 DEF CrossingInv, Crosses, RecordsInv
  <2>3. name \in Allowlist(setup.ptc) \ NonIdentifiers
    BY <2>1, <2>2, ResolvedTools, RequestsAssumption DEF Resolved
  <2>4. /\ name \in DOMAIN stubs
        /\ stubs[name] = [any |-> TRUE] \/ stubs[name] = Signature(tool)
    BY <2>1, <2>3 DEF RenderTypeStubs
  <2>5. Binds(call, Args(tool), Optional(tool))
    <3>1. \A p \in ToSet(Args(tool)) : p \in tool.optional => p \in Optional(tool)
      BY DEF DefaultsShown, Optional, IsRequired
    <3>2. QED
      BY <2>1, <3>1 DEF Binds
  <2> HIDE DEF stubs
  <2>6. \/ stubs[name].any
        \/ /\ stubs[name].params = Args(tool)
           /\ stubs[name].optional = Optional(tool)
    BY <2>4 DEF Signature
  <2>7. TypeChecks(name, call, stubs)
    BY <2>2, <2>4, <2>5, <2>6 DEF TypeChecks
  <2>8. QED
    BY <2>2, <2>7 DEF Passes
<1>2. QED
  BY <1>1, CrossingKept, PTL

----------------------------------------------------------------------------
(***************************************************************************)
(* What the model is told                                                  *)
(***************************************************************************)
\* After the model call it is known what the model was shown.
Prompted(c) ==
    prompt[c].schemas
       = PromptedTools(prompt[c].request_tools, setup.ptc, setup.system_prompt)

PromptInv ==
    /\ prompt = [c \in Calls |-> prompt[c]]
    /\ \A c \in Calls : at[c] \notin {"unused", "model"} => Prompted(c)

LEMMA PromptInit == Init => PromptInv
BY DEF Init, PromptInv

LEMMA PromptStep == RecordsInv /\ PromptInv /\ [Next]_vars => PromptInv'
<1> SUFFICES ASSUME RecordsInv, PromptInv, [Next]_vars PROVE PromptInv'
  OBVIOUS
<1>1. CASE UNCHANGED vars
  BY <1>1 DEF vars, PromptInv, Prompted
<1> SUFFICES ASSUME NEW c \in Calls, Step(c) PROVE PromptInv'
  BY <1>1 DEF Next, AllDone
<1>2. setup' = setup /\ at \in [Calls -> Stages]
  BY DEF Step, AmendModelRequest, StartLeg, LoadRecord, CheckTypes, RejectCall,
         Interrupt, HumanAnswers, InvokeTool, Complete, Return, RecordsInv
<1>3. CASE AmendModelRequest(c)
  BY <1>2, <1>3 DEF AmendModelRequest, Goto, PromptInv, Prompted
<1>4. CASE ~ AmendModelRequest(c)
  <2>1. /\ prompt' = prompt /\ at[c] \notin {"unused", "model"}
        /\ \A d \in Calls \ {c} : at'[d] = at[d]
    BY <1>2, <1>4 DEF Step, StartLeg, LoadRecord, CheckTypes, RejectCall,
       Interrupt, HumanAnswers, InvokeTool, Complete, Return, Goto
  <2>2. QED
    BY <1>2, <2>1 DEF PromptInv, Prompted
<1>5. QED
  BY <1>3, <1>4

LEMMA PromptKept == Spec => [](RecordsInv /\ CrossingInv /\ PromptInv)
<1>1. Spec => []PromptInv
  BY PromptInit, PromptStep, RecordsKept, PTL DEF Spec
<1>2. QED
  BY <1>1, CrossingKept, PTL

\* A tool given at construction is there in every leg, unless it is eval_python.
LEMMA GivenStays ==
    ASSUME NEW s \in Setups, NEW b \in Bindings,
           NEW n \in DOMAIN PtcTools(s.ptc) \ {"eval_python"}
    PROVE  /\ n \in DOMAIN ResolveHostTools(b, s.ptc)
           /\ ResolveHostTools(b, s.ptc)[n] = PtcTools(s.ptc)[n]
BY DEF ResolveHostTools, Merge, Restrict

\* Under a name of ptc that none is given for, it is the first one bound, if any.
LEMMA BoundIsFound ==
    ASSUME NEW s \in Setups, NEW b \in Bindings,
           NEW n \in Allowlist(s.ptc) \ {"eval_python"},
           n \notin DOMAIN PtcTools(s.ptc)
    PROVE  /\ n \in DOMAIN ResolveHostTools(b, s.ptc) <=> Called(b, n) # {}
           /\ n \in DOMAIN ResolveHostTools(b, s.ptc) =>
                 ResolveHostTools(b, s.ptc)[n] \in Called(b, n)
<1>1. n \in {t.name : t \in ToSet(b)} <=> Called(b, n) # {}
  BY DEF Called
<1>2. /\ n \in DOMAIN ResolveHostTools(b, s.ptc) <=> n \in {t.name : t \in ToSet(b)}
      /\ n \in DOMAIN ResolveHostTools(b, s.ptc) =>
            ResolveHostTools(b, s.ptc)[n] = FirstNamed(b, n)
  BY DEF ResolveHostTools, Merge, Restrict
<1>3. n \in {t.name : t \in ToSet(b)} => FirstNamed(b, n) \in Called(b, n)
  BY FirstIsBound DEF Called
<1>4. QED
  BY <1>1, <1>2, <1>3

\* An entry alone under its name is given, or is looked up, and not both.
LEMMA OneEntry ==
    ASSUME setup \in Setups, NEW n, Cardinality(Entries(n)) = 1,
           n \in DeferredNames(setup.ptc)
    PROVE  n \notin DOMAIN PtcTools(setup.ptc)
<1>1. setup.ptc \in Seq(ToSet(setup.ptc))
  BY ListsAssumption DEF IsList
<1>2. /\ Len(setup.ptc) \in Nat /\ DOMAIN setup.ptc = 1..Len(setup.ptc)
  BY <1>1
<1>3. IsFiniteSet(Entries(n))
  <2>1. IsFiniteSet(1..Len(setup.ptc))
    BY <1>2, FS_Interval, 1 \in Int, Len(setup.ptc) \in Int
  <2>2. Entries(n) \subseteq 1..Len(setup.ptc)
    BY <1>2 DEF Entries
  <2>3. QED
    BY <2>1, <2>2, FS_Subset
<1>4. PICK i : Entries(n) = {i}
  BY <1>3, FS_Singleton
<1>5. setup.ptc[i].by_name
  BY <1>4 DEF DeferredNames, Entries, ToSet
<1>6. QED
  BY <1>4, <1>5 DEF PtcTools, Entries, ToSet

\* For every list of tools given or named, whatever is in the request and whatever
\* is bound in a leg: under a name that ptc gives once the model has read the
\* signature of the tool that the leg runs, and no other.  For a deferred name this
\* needs a system prompt, and a leg that finds under the name what the model call
\* found, at most one tool (middleware 142-167, 225-247, 304-317,
\* _tool_rendering.py 116-128).
THEOREM PromptIsTrue == Spec => []ToldTruthfully
<1>1. RecordsInv /\ CrossingInv /\ PromptInv => ToldTruthfully
  <2> SUFFICES ASSUME RecordsInv, CrossingInv, PromptInv, NEW c \in Calls,
                      at[c] \notin {"unused", "model", "start"},
                      NEW n \in Allowlist(setup.ptc) \ {"eval_python"},
                      Cardinality(Entries(n)) = 1,
                      n \in DeferredNames(setup.ptc) =>
                         setup.system_prompt /\ SameTool(c, n)
               PROVE  {t \in prompt[c].schemas : t.name = n}
                         = {tools[c][m] : m \in DOMAIN tools[c] \cap {n}}
    BY DEF ToldTruthfully
  <2> DEFINE given == PtcTools(setup.ptc)
             asked == prompt[c].request_tools
  <2>1. /\ setup \in Setups /\ bound[c] \in Bindings
        /\ tools[c] = ResolveHostTools(bound[c], setup.ptc)
    BY DEF RecordsInv, CrossingInv, Crosses, Resolved
  <2>2. prompt[c].schemas
           = Range(given)
                \cup {t \in ToSet(asked) :
                         setup.system_prompt /\ t.name \in DeferredNames(setup.ptc)}
    BY DEF PromptInv, Prompted, PromptedTools
  <2>3. \A m \in DOMAIN given : given[m].name = m
    BY <2>1, PtcToolGiven, SetupsAssumption
  <2>4. {t \in Range(given) : t.name = n} = {given[m] : m \in DOMAIN given \cap {n}}
    BY <2>3 DEF Range
  <2>5. n \in DeferredNames(setup.ptc) \/ n \in DOMAIN given
    BY DEF Allowlist, DeferredNames, PtcTools
  <2> HIDE DEF given
  <2>6. CASE n \notin DeferredNames(setup.ptc)
    <3>1. {t \in prompt[c].schemas : t.name = n} = {given[n]}
      BY <2>2, <2>4, <2>5, <2>6
    <3>2. n \in DOMAIN tools[c] /\ tools[c][n] = given[n]
      BY <2>1, <2>5, <2>6, GivenStays DEF given
    <3>3. QED
      BY <3>1, <3>2
  <2>7. CASE n \in DeferredNames(setup.ptc)
    <3>1. n \notin DOMAIN given
      BY <2>1, <2>7, OneEntry DEF given
    <3>2. {t \in prompt[c].schemas : t.name = n} = Called(bound[c], n)
      BY <2>2, <2>4, <2>7, <3>1 DEF SameTool, Called
    <3>3. /\ n \in DOMAIN tools[c] <=> Called(bound[c], n) # {}
          /\ n \in DOMAIN tools[c] => tools[c][n] \in Called(bound[c], n)
      BY <2>1, <3>1, BoundIsFound DEF given
    <3>4. n \in DOMAIN tools[c] => Called(bound[c], n) = {tools[c][n]}
      BY <2>7, <3>3 DEF SameTool
    <3>5. QED
      BY <3>2, <3>3, <3>4
  <2>8. QED
    BY <2>6, <2>7
<1>2. QED
  BY <1>1, PromptKept, PTL
=============================================================================
