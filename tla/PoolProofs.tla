----------------------------- MODULE PoolProofs -----------------------------
(***************************************************************************)
(* Theorems of Pool for every report and every order register.  The        *)
(* dedup loop has removed the copies of the groups it visited and of no    *)
(* other; a row that was narrowed holds what the report and the register   *)
(* determine; a recovered order is the sole candidate of one row alone;    *)
(* and the exceptions are those of the rows the last loop has seen.        *)
(***************************************************************************)
EXTENDS Pool, FoldLemmas

InputInv == input \in [report : Report, orders : Register]

DedupInv ==
    /\ groups \subseteq Groups(report)
    /\ suppressed = UNION {Spurious(report, g) : g \in Groups(report) \ groups}
    /\ stage # "dedup" => groups = {}

\* Pass 1 writes what the input determines, whatever row it visits first.
NarrowInv ==
    /\ stage \in {"narrow", "accept"} => todo \subseteq Anonymous
    /\ \A t \in Anonymous :
         \/ stage = "narrow" /\ t \notin todo
         \/ stage \in {"accept", "except", "ready"}
         => candidates[t] = NarrowedOrders(t)

Owns(t, o) == candidates[t] = {o} /\ Wanting(o) = {t}

\* Pass 2 gives a row the order it alone has as its sole candidate.
RecoverInv ==
    /\ stage \in {"dedup", "narrow"} => \A t \in Txns : recovered[t] = None
    /\ \A t \in Txns :
         recovered[t] # None => t \in Anonymous /\ Owns(t, recovered[t])
    /\ \A t \in Anonymous, o \in OrderIds :
         /\ stage \in {"accept", "except", "ready"}
         /\ stage = "accept" => t \notin todo
         /\ Owns(t, o)
         => recovered[t] = o

\* The exceptions are the duplicates and the reasons of the rows visited.
ExceptInv ==
    stage \in {"except", "ready"} =>
        /\ todo \subseteq Active
        /\ stage = "ready" => todo = {}
        /\ \A t, r : <<t, r>> \in exceptions <=>
             \/ t \in suppressed /\ r = "DUPLICATE_PSP_TXN"
             \/ t \in Active \ todo /\ r \in Unplaced(t)

PoolInv ==
    InputInv /\ TypeOK /\ DedupInv /\ NarrowInv /\ RecoverInv /\ ExceptInv

----------------------------------------------------------------------------
\* The row issued first.

\* Any rows of the report have one, because ids are numbers.
LEMMA FirstIssued ==
    ASSUME NEW rows \in SUBSET Txns, rows # {}
    PROVE  Min(rows) \in rows /\ \A t \in rows : Min(rows) <= t
<1>1. rows \subseteq Int
  BY RowsAssumption
<1>2. IsFiniteSet(rows)
  BY RowsAssumption, FS_Subset
<1> QED
  BY <1>1, <1>2, LeastElement

----------------------------------------------------------------------------
\* Event groups and their copies.

\* Two rows of one group carry one event, and a row is in one group only.
LEMMA GroupsApart ==
    ASSUME NEW p, NEW g \in Groups(p), NEW t \in g
    PROVE  /\ g \subseteq Txns
           /\ Named(p, t)
           /\ g = {u \in Txns : Named(p, u) /\ Event(p, u) = Event(p, t)}
           /\ \A h \in Groups(p) : t \in h => h = g
<1>1. PICK a \in Txns : g = {u \in Txns : Named(p, u) /\ Event(p, u) = Event(p, a)}
  BY DEF Groups
<1>2. /\ Named(p, t) /\ Event(p, t) = Event(p, a)
      /\ g = {u \in Txns : Named(p, u) /\ Event(p, u) = Event(p, t)}
  BY <1>1
<1>3. ASSUME NEW h \in Groups(p), t \in h PROVE h = g
  <2>1. PICK b \in Txns : h = {u \in Txns : Named(p, u) /\ Event(p, u) = Event(p, b)}
    BY DEF Groups
  <2>2. Event(p, t) = Event(p, b)
    BY <1>3, <2>1
  <2> QED
    BY <1>2, <2>1, <2>2
<1> QED
  BY <1>1, <1>2, <1>3

LEMMA NamedHasGroup ==
    ASSUME NEW p, NEW t \in Txns, Named(p, t)
    PROVE  /\ {u \in Txns : Named(p, u) /\ Event(p, u) = Event(p, t)} \in Groups(p)
           /\ t \in {u \in Txns : Named(p, u) /\ Event(p, u) = Event(p, t)}
  BY DEF Groups

\* A copy belongs to the group it was found in.
LEMMA CopiesInGroup ==
    ASSUME NEW p, NEW g
    PROVE  Spurious(p, g) \subseteq g
  BY DEF Spurious, BatchCopies, LooseCopies, RowsIn

\* A settled row is a copy exactly when it is not the first of its group that
\* its settlement holds.
LEMMA SettledCopies ==
    ASSUME NEW p, NEW g, NEW t \in g, p.settlement[t] # None
    PROVE  t \in Spurious(p, g) <=> t # Min(RowsIn(p, g, p.settlement[t]))
<1>1. t \notin LooseCopies(p, g)
  BY DEF LooseCopies, RowsIn
<1>2. t \in BatchCopies(p, g) <=>
        \E s \in {p.settlement[u] : u \in g} \ {None} :
           t \in RowsIn(p, g, s) /\ t # Min(RowsIn(p, g, s))
  BY DEF BatchCopies
<1>3. \A s : t \in RowsIn(p, g, s) <=> s = p.settlement[t]
  BY DEF RowsIn
<1>4. t \in BatchCopies(p, g) <=> t # Min(RowsIn(p, g, p.settlement[t]))
  BY <1>2, <1>3
<1> QED
  BY <1>1, <1>4 DEF Spurious

\* An unsettled row is a copy when the group has a settled row, or when it is
\* not the first of a group without one.
LEMMA UnsettledCopies ==
    ASSUME NEW p, NEW g, NEW t \in g, p.settlement[t] = None
    PROVE  t \in Spurious(p, g) <=>
             \/ \E u \in g : p.settlement[u] # None
             \/ t # Min(g)
<1>1. t \notin BatchCopies(p, g)
  BY DEF BatchCopies, RowsIn
<1>2. RowsIn(p, g, None) # g <=> \E u \in g : p.settlement[u] # None
  BY DEF RowsIn
<1>3. t \in RowsIn(p, g, None)
  BY DEF RowsIn
<1>4. t \in LooseCopies(p, g) <=>
        \/ RowsIn(p, g, None) # g
        \/ t # Min(RowsIn(p, g, None))
  BY <1>3 DEF LooseCopies
<1> QED
  BY <1>1, <1>2, <1>4 DEF Spurious

\* What the dedup loop leaves suppressed, row by row.
LEMMA SuppressedIn ==
    ASSUME NEW p, NEW g \in Groups(p), NEW t \in g
    PROVE  t \in SuppressedTxns(p) <=> t \in Spurious(p, g)
  BY GroupsApart, CopiesInGroup DEF SuppressedTxns

----------------------------------------------------------------------------
\* The invariant is inductive.

LEMMA InputTypes ==
    ASSUME InputInv
    PROVE  /\ report \in Report
           /\ orders \in Register
           /\ orders.known \subseteq OrderIds
  BY DEF InputInv, report, orders, Register

LEMMA NarrowedKnown ==
    ASSUME InputInv, NEW t \in Txns
    PROVE  NarrowedOrders(t) \subseteq OrderIds
  BY InputTypes DEF NarrowedOrders, AtGross

\* A row whose sole candidate nobody shares is the only element of Wanting.
LEMMA OneWanting ==
    ASSUME NEW t \in Anonymous, NEW o, candidates[t] = {o}
    PROVE  Cardinality(Wanting(o)) = 1 <=> Wanting(o) = {t}
<1>1. t \in Wanting(o) /\ IsFiniteSet(Wanting(o))
  <2>1. Wanting(o) \subseteq Txns
    BY DEF Wanting, Anonymous, Active
  <2>2. IsFiniteSet(Wanting(o))
    BY <2>1, RowsAssumption, FS_Subset
  <2> QED
    BY <2>2 DEF Wanting
<1>2. Cardinality(Wanting(o)) = 1 <=> \E x : Wanting(o) = {x}
  BY <1>1, FS_Singleton
<1> QED
  BY <1>1, <1>2

LEMMA InitPool == Init => PoolInv
<1> SUFFICES ASSUME Init PROVE PoolInv
  OBVIOUS
<1>1. InputInv
  BY InputsAssumption DEF Init, InputInv
<1>2. Groups(report) \subseteq SUBSET Txns
  BY DEF Groups
<1>3. TypeOK
  BY <1>2 DEF Init, TypeOK, report
<1>4. DedupInv
  BY DEF Init, DedupInv, report
<1>5. NarrowInv /\ RecoverInv /\ ExceptInv
  BY DEF Init, NarrowInv, RecoverInv, ExceptInv
<1> QED
  BY <1>1, <1>3, <1>4, <1>5 DEF PoolInv

\* What depends on the input and on the suppressed rows alone.
LEMMA SameRows ==
    ASSUME UNCHANGED <<input, suppressed>>
    PROVE  /\ report' = report
           /\ Active' = Active
           /\ Anonymous' = Anonymous
           /\ \A t \in Txns : NarrowedOrders(t)' = NarrowedOrders(t)
<1>1. report' = report /\ orders' = orders
  BY DEF report, orders
<1>2. Active' = Active /\ NamedOrders' = NamedOrders
  BY <1>1 DEF Active, NamedOrders
<1>3. Anonymous' = Anonymous
  BY <1>1, <1>2 DEF Anonymous
<1>4. ASSUME NEW t \in Txns PROVE AtGross(t)' = AtGross(t)
  BY <1>1, <1>2 DEF AtGross
<1>5. ASSUME NEW t \in Txns PROVE NarrowedOrders(t)' = NarrowedOrders(t)
  <2>1. \A o : InWindow(o, t)' <=> InWindow(o, t)
    BY <1>1 DEF InWindow
  <2> QED
    BY <1>4, <2>1 DEF NarrowedOrders
<1> QED
  BY <1>1, <1>2, <1>3, <1>5

LEMMA SameOwners ==
    ASSUME UNCHANGED <<input, suppressed, candidates>>
    PROVE  \A t, o : Owns(t, o)' <=> Owns(t, o)
  BY SameRows DEF Owns, Wanting

\* The dedup loop is over, so a step that leaves its result keeps DedupInv.
LEMMA DedupKept ==
    ASSUME DedupInv, UNCHANGED <<input, groups, suppressed>>,
           stage # "dedup"
    PROVE  DedupInv'
  BY SameRows DEF DedupInv

LEMMA NextPoolTypeOK == PoolInv /\ [Next]_vars => (InputInv /\ TypeOK)'
<1> SUFFICES ASSUME PoolInv, [Next]_vars PROVE (InputInv /\ TypeOK)'
  OBVIOUS
<1>0. InputInv'
  BY DEF PoolInv, InputInv, Next, vars, Terminated, Suppress, Narrow, Recover,
     Decline, Except, StartRecovery, StartAccept, StartExcept, Ready
<1>1. ASSUME NEW g \in groups, Suppress(g) PROVE TypeOK'
  <2>1. Spurious(report, g) \subseteq Txns
    <3>1. g \subseteq Txns
      BY DEF PoolInv, TypeOK
    <3> QED
      BY <3>1, CopiesInGroup
  <2> QED
    BY <1>1, <2>1 DEF Suppress, PoolInv, TypeOK
<1>2. ASSUME NEW t \in todo, Narrow(t) PROVE TypeOK'
  <2>1. NarrowedOrders(t) \in SUBSET OrderIds
    BY NarrowedKnown DEF PoolInv, TypeOK
  <2> QED
    BY <1>2, <2>1 DEF Narrow, PoolInv, TypeOK
<1>3. ASSUME NEW t \in todo, Recover(t) PROVE TypeOK'
  BY <1>3 DEF Recover, PoolInv, TypeOK
<1>4. ASSUME NEW t \in todo, Decline(t) PROVE TypeOK'
  BY <1>4 DEF Decline, PoolInv, TypeOK
<1>5. ASSUME NEW t \in todo, Except(t) PROVE TypeOK'
  <2>1. Unplaced(t) \subseteq {"ORPHAN_PSP_TXN", "MISSING_ORDER_REF"}
    BY DEF Unplaced
  <2>2. t \in Txns
    BY DEF PoolInv, TypeOK
  <2> QED
    BY <1>5, <2>1, <2>2 DEF Except, PoolInv, TypeOK
<1>6. CASE StartRecovery
  <2>1. Anonymous \subseteq Txns
    BY DEF Anonymous, Active
  <2> QED
    BY <1>0, <1>6, <2>1 DEF StartRecovery, PoolInv, TypeOK
<1>7. CASE StartAccept
  <2>1. Anonymous \subseteq Txns
    BY DEF Anonymous, Active
  <2> QED
    BY <1>0, <1>7, <2>1 DEF StartAccept, PoolInv, TypeOK
<1>8. CASE StartExcept
  <2>1. Active \subseteq Txns
    BY DEF Active
  <2> QED
    BY <1>0, <1>8, <2>1 DEF StartExcept, PoolInv, TypeOK
<1>9. CASE Ready
  BY <1>0, <1>9 DEF Ready, PoolInv, TypeOK
<1>10. CASE UNCHANGED vars
  BY <1>0, <1>10 DEF vars, PoolInv, TypeOK
<1> QED
  BY <1>0, <1>1, <1>2, <1>3, <1>4, <1>5, <1>6, <1>7, <1>8, <1>9, <1>10
     DEF Next, Terminated

LEMMA SuppressKeeps ==
    ASSUME PoolInv, NEW g \in groups, Suppress(g)
    PROVE  (DedupInv /\ NarrowInv /\ RecoverInv /\ ExceptInv)'
<1>1. /\ stage = "dedup" /\ stage' = "dedup"
      /\ groups' = groups \ {g}
      /\ suppressed' = suppressed \union Spurious(report, g)
      /\ UNCHANGED <<input, recovered>>
  BY DEF Suppress
<1>2. report' = report /\ g \in Groups(report)
  BY <1>1 DEF report, PoolInv, DedupInv
<1>3. Groups(report) \ groups' = (Groups(report) \ groups) \union {g}
  BY <1>1, <1>2
<1>4. UNION {Spurious(report, h) : h \in Groups(report) \ groups'}
        = (UNION {Spurious(report, h) : h \in Groups(report) \ groups})
            \union Spurious(report, g)
  BY <1>3
<1>5. DedupInv'
  BY <1>1, <1>2, <1>4 DEF PoolInv, DedupInv
<1>6. (NarrowInv /\ ExceptInv)'
  BY <1>1 DEF NarrowInv, ExceptInv
<1>7. RecoverInv'
  BY <1>1 DEF PoolInv, TypeOK, RecoverInv
<1> QED
  BY <1>5, <1>6, <1>7

LEMMA NarrowKeeps ==
    ASSUME PoolInv, NEW t \in todo, Narrow(t)
    PROVE  (DedupInv /\ NarrowInv /\ RecoverInv /\ ExceptInv)'
<1>1. /\ stage = "narrow" /\ stage' = "narrow"
      /\ todo' = todo \ {t}
      /\ candidates' = [candidates EXCEPT ![t] = NarrowedOrders(t)]
      /\ UNCHANGED <<input, groups, suppressed, recovered>>
  BY DEF Narrow
<1>2. Anonymous \subseteq Txns
  BY DEF Anonymous, Active
<1>3. NarrowInv'
  BY <1>1, <1>2, SameRows DEF PoolInv, TypeOK, NarrowInv
<1>4. RecoverInv' /\ ExceptInv'
  BY <1>1 DEF PoolInv, TypeOK, RecoverInv, ExceptInv
<1> QED
  BY <1>1, <1>3, <1>4, DedupKept DEF PoolInv

LEMMA RecoverKeeps ==
    ASSUME PoolInv, NEW t \in todo, Recover(t)
    PROVE  (DedupInv /\ NarrowInv /\ RecoverInv /\ ExceptInv)'
<1>1. /\ stage = "accept" /\ stage' = "accept"
      /\ todo' = todo \ {t}
      /\ UNCHANGED <<input, groups, suppressed, candidates>>
  BY DEF Recover
<1>2. PICK o \in OrderIds :
        /\ candidates[t] = {o}
        /\ Cardinality(Wanting(o)) = 1
        /\ recovered' = [recovered EXCEPT ![t] = o]
  BY DEF Recover
<1>3. t \in Anonymous /\ t \in Txns
  BY <1>1 DEF PoolInv, TypeOK, NarrowInv
<1>4. Owns(t, o)
  BY <1>2, <1>3, OneWanting DEF Owns
<1>5. /\ recovered'[t] = o
      /\ \A u \in Txns \ {t} : recovered'[u] = recovered[u]
  BY <1>2, <1>3 DEF PoolInv, TypeOK
<1>6. \A x : Owns(t, x) => x = o
  BY <1>2 DEF Owns
<1>7. RecoverInv'
  <2>1. \A u \in Txns :
          recovered'[u] # None => u \in Anonymous /\ Owns(u, recovered'[u])
    BY <1>3, <1>4, <1>5 DEF PoolInv, RecoverInv
  <2>2. \A u \in Anonymous, x \in OrderIds :
          u \notin todo' /\ Owns(u, x) => recovered'[u] = x
    <3>1. Anonymous \subseteq Txns
      BY DEF Anonymous, Active
    <3> QED
      BY <1>1, <1>5, <1>6, <3>1 DEF PoolInv, RecoverInv
  <2> QED
    BY <1>1, <2>1, <2>2, SameRows, SameOwners DEF RecoverInv
<1>8. NarrowInv' /\ ExceptInv'
  <2>1. Anonymous \subseteq Txns
    BY DEF Anonymous, Active
  <2> QED
    BY <1>1, <2>1, SameRows DEF PoolInv, NarrowInv, ExceptInv
<1> QED
  BY <1>1, <1>7, <1>8, DedupKept DEF PoolInv

LEMMA DeclineKeeps ==
    ASSUME PoolInv, NEW t \in todo, Decline(t)
    PROVE  (DedupInv /\ NarrowInv /\ RecoverInv /\ ExceptInv)'
<1>1. /\ stage = "accept" /\ stage' = "accept"
      /\ todo' = todo \ {t}
      /\ UNCHANGED <<input, groups, suppressed, candidates, recovered>>
  BY DEF Decline
<1>2. t \in Anonymous /\ Anonymous \subseteq Txns
  BY <1>1 DEF PoolInv, NarrowInv, Anonymous, Active
<1>3. \A o \in OrderIds : ~Owns(t, o)
  BY <1>2, OneWanting DEF Decline, Owns
<1>4. RecoverInv'
  BY <1>1, <1>3, SameRows, SameOwners DEF PoolInv, RecoverInv
<1>5. NarrowInv' /\ ExceptInv'
  BY <1>1, <1>2, SameRows DEF PoolInv, NarrowInv, ExceptInv
<1> QED
  BY <1>1, <1>4, <1>5, DedupKept DEF PoolInv

LEMMA ExceptKeeps ==
    ASSUME PoolInv, NEW t \in todo, Except(t)
    PROVE  (DedupInv /\ NarrowInv /\ RecoverInv /\ ExceptInv)'
<1>1. /\ stage = "except" /\ stage' = "except"
      /\ todo' = todo \ {t}
      /\ exceptions' = exceptions \union {<<t, r>> : r \in Unplaced(t)}
      /\ UNCHANGED <<input, groups, suppressed, candidates, recovered>>
  BY DEF Except
<1>2. t \in Active
  BY <1>1 DEF PoolInv, ExceptInv
<1>3. \A u, r : r \in Unplaced(u)' <=> r \in Unplaced(u)
  BY <1>1, SameRows DEF Unplaced
<1>4. \A u, r : <<u, r>> \in exceptions' <=>
        <<u, r>> \in exceptions \/ (u = t /\ r \in Unplaced(t))
  BY <1>1
<1>5. ExceptInv'
  BY <1>1, <1>2, <1>3, <1>4, SameRows DEF PoolInv, ExceptInv
<1>6. NarrowInv'
  BY <1>1, SameRows DEF PoolInv, NarrowInv, Anonymous, Active
<1>7. RecoverInv'
  BY <1>1, SameRows, SameOwners DEF PoolInv, RecoverInv
<1> QED
  BY <1>1, <1>5, <1>6, <1>7, DedupKept DEF PoolInv

\* Each loop starts on rows that nothing has been decided for.
LEMMA StartRecoveryKeeps ==
    ASSUME PoolInv, StartRecovery
    PROVE  (DedupInv /\ NarrowInv /\ RecoverInv /\ ExceptInv)'
<1>1. /\ stage = "dedup" /\ groups = {} /\ stage' = "narrow"
      /\ todo' = Anonymous
      /\ UNCHANGED <<input, groups, suppressed, candidates, recovered>>
  BY DEF StartRecovery
<1>2. DedupInv'
  BY <1>1, SameRows DEF PoolInv, DedupInv
<1>3. NarrowInv' /\ ExceptInv'
  BY <1>1, SameRows DEF NarrowInv, ExceptInv
<1>4. RecoverInv'
  BY <1>1 DEF PoolInv, RecoverInv
<1> QED
  BY <1>2, <1>3, <1>4

LEMMA StartAcceptKeeps ==
    ASSUME PoolInv, StartAccept
    PROVE  (DedupInv /\ NarrowInv /\ RecoverInv /\ ExceptInv)'
<1>1. /\ stage = "narrow" /\ todo = {} /\ stage' = "accept"
      /\ todo' = Anonymous
      /\ UNCHANGED <<input, groups, suppressed, candidates, recovered>>
  BY DEF StartAccept
<1>2. NarrowInv' /\ ExceptInv'
  <2>1. Anonymous \subseteq Txns
    BY DEF Anonymous, Active
  <2> QED
    BY <1>1, <2>1, SameRows DEF PoolInv, NarrowInv, ExceptInv
<1>3. RecoverInv'
  BY <1>1, SameRows DEF PoolInv, RecoverInv
<1> QED
  BY <1>1, <1>2, <1>3, DedupKept DEF PoolInv

LEMMA StartExceptKeeps ==
    ASSUME PoolInv, StartExcept
    PROVE  (DedupInv /\ NarrowInv /\ RecoverInv /\ ExceptInv)'
<1>1. /\ stage = "accept" /\ todo = {} /\ stage' = "except"
      /\ exceptions' = {<<t, "DUPLICATE_PSP_TXN">> : t \in suppressed}
      /\ todo' = Active
      /\ UNCHANGED <<input, groups, suppressed, candidates, recovered>>
  BY DEF StartExcept
<1>2. NarrowInv'
  <2>1. Anonymous \subseteq Txns
    BY DEF Anonymous, Active
  <2> QED
    BY <1>1, <2>1, SameRows DEF PoolInv, NarrowInv
<1>3. RecoverInv'
  BY <1>1, SameRows, SameOwners DEF PoolInv, RecoverInv
<1>4. ExceptInv'
  <2>1. \A u, r : <<u, r>> \in exceptions' <=>
          u \in suppressed /\ r = "DUPLICATE_PSP_TXN"
    BY <1>1
  <2> QED
    BY <1>1, <2>1, SameRows DEF ExceptInv
<1> QED
  BY <1>1, <1>2, <1>3, <1>4, DedupKept DEF PoolInv

LEMMA ReadyKeeps ==
    ASSUME PoolInv, Ready \/ UNCHANGED vars
    PROVE  (DedupInv /\ NarrowInv /\ RecoverInv /\ ExceptInv)'
<1>1. /\ \/ stage = "except" /\ stage' = "ready" /\ todo = {}
         \/ stage' = stage
      /\ UNCHANGED <<input, groups, suppressed, candidates, recovered, todo,
                     exceptions>>
  BY DEF Ready, vars
<1>2. \A u, r : r \in Unplaced(u)' <=> r \in Unplaced(u)
  BY <1>1, SameRows DEF Unplaced
<1>3. ExceptInv'
  BY <1>1, <1>2, SameRows DEF PoolInv, ExceptInv
<1>4. NarrowInv'
  BY <1>1, SameRows DEF PoolInv, NarrowInv, Anonymous, Active
<1>5. RecoverInv'
  BY <1>1, SameRows, SameOwners DEF PoolInv, RecoverInv
<1>6. DedupInv'
  BY <1>1, SameRows DEF PoolInv, DedupInv
<1> QED
  BY <1>3, <1>4, <1>5, <1>6

LEMMA NextPool == PoolInv /\ [Next]_vars => PoolInv'
<1> SUFFICES ASSUME PoolInv, [Next]_vars PROVE PoolInv'
  OBVIOUS
<1>1. (InputInv /\ TypeOK)'
  BY NextPoolTypeOK
<1>2. (DedupInv /\ NarrowInv /\ RecoverInv /\ ExceptInv)'
  BY SuppressKeeps, NarrowKeeps, RecoverKeeps, DeclineKeeps, ExceptKeeps,
     StartRecoveryKeeps, StartAcceptKeeps, StartExceptKeeps, ReadyKeeps
     DEF Next, Terminated
<1> QED
  BY <1>1, <1>2 DEF PoolInv

THEOREM PoolInvariance == Spec => []PoolInv
<1> QED
  BY InitPool, NextPool, PTL DEF Spec

\* The pool's bookkeeping keeps its shape on every report.
THEOREM PoolTypeCorrect == Spec => []TypeOK
<1>1. PoolInv => TypeOK
  BY DEF PoolInv
<1> QED
  BY <1>1, PoolInvariance, PTL

----------------------------------------------------------------------------
\* Suppression.

\* After the dedup loop, the rows of one event and one settlement keep the
\* first issued and lose the others.
LEMMA FirstSurvives ==
    ASSUME PoolInv, stage # "dedup",
           NEW t \in Txns, Named(report, t), report.settlement[t] # None,
           NEW same, same = {u \in Txns : Named(report, u)
                                /\ Event(report, u) = Event(report, t)
                                /\ report.settlement[u] = report.settlement[t]}
    PROVE  \E u \in same : same \ suppressed = {u} /\ \A v \in same : u <= v
<1> DEFINE g == {u \in Txns : Named(report, u) /\ Event(report, u) = Event(report, t)}
<1>1. g \in Groups(report) /\ t \in g
  BY NamedHasGroup
<1>2. same = RowsIn(report, g, report.settlement[t])
  BY DEF RowsIn
<1>3. suppressed = SuppressedTxns(report)
  BY DEF PoolInv, DedupInv, SuppressedTxns
<1> HIDE DEF g
<1>4. \A u \in same : u \in g /\ report.settlement[u] = report.settlement[t]
  BY <1>2 DEF RowsIn
<1>5. \A u \in same : u \in suppressed <=> u # Min(same)
  <2> TAKE u \in same
  <2>1. u \in g /\ report.settlement[u] # None
    BY <1>4
  <2>2. u \in suppressed <=> u \in Spurious(report, g)
    BY <1>1, <1>3, <2>1, SuppressedIn
  <2>3. u \in Spurious(report, g) <=> u # Min(RowsIn(report, g, report.settlement[u]))
    BY <2>1, SettledCopies
  <2> QED
    BY <1>2, <1>4, <2>2, <2>3
<1>6. same \in SUBSET Txns /\ t \in same
  OBVIOUS
<1>7. Min(same) \in same /\ \A v \in same : Min(same) <= v
  BY <1>6, FirstIssued
<1> QED
  BY <1>5, <1>7

LEMMA CountedOnce ==
    ASSUME PoolInv
    PROVE  EventsCountedOnce
  BY FirstSurvives DEF EventsCountedOnce

\* An unsettled row survives exactly when no other row of its event does.
LEMMA LooseOriginals ==
    ASSUME PoolInv
    PROVE  LooseRowsAreOriginals
<1> SUFFICES ASSUME stage # "dedup", NEW t \in Txns, Named(report, t),
                    report.settlement[t] = None
             PROVE  LET other == {u \in Active \ {t} : Named(report, u)
                                    /\ Event(report, u) = Event(report, t)}
                    IN  t \in Active <=> other = {}
  BY DEF LooseRowsAreOriginals
<1> DEFINE g == {u \in Txns : Named(report, u) /\ Event(report, u) = Event(report, t)}
           other == {u \in Active \ {t} : Named(report, u)
                       /\ Event(report, u) = Event(report, t)}
<1>1. g \in Groups(report) /\ t \in g
  BY NamedHasGroup
<1>2. suppressed = SuppressedTxns(report)
  BY DEF PoolInv, DedupInv, SuppressedTxns
<1>3. other = (g \ suppressed) \ {t}
  BY DEF Active
<1>4. t \in Active <=> t \notin suppressed
  BY DEF Active
<1>5. g \in SUBSET Txns
  OBVIOUS
<1> HIDE DEF g
<1>6. \A u \in g : u \in suppressed <=> u \in Spurious(report, g)
  BY <1>1, <1>2, SuppressedIn
<1>7. CASE \E u \in g : report.settlement[u] # None
  <2>1. t \in suppressed
    BY <1>1, <1>6, <1>7, UnsettledCopies
  <2>2. PICK u \in g : report.settlement[u] # None
    BY <1>7
  <2> DEFINE rows == RowsIn(report, g, report.settlement[u])
  <2>3. rows \in SUBSET Txns /\ u \in rows
    BY <1>5, <2>2 DEF RowsIn
  <2>4. Min(rows) \in rows
    BY <2>3, FirstIssued
  <2>5. /\ Min(rows) \in g
        /\ report.settlement[Min(rows)] = report.settlement[u]
    BY <2>4 DEF RowsIn
  <2>6. Min(rows) \notin suppressed
    BY <1>6, <2>2, <2>5, SettledCopies
  <2> QED
    BY <1>3, <1>4, <2>1, <2>2, <2>5, <2>6
<1>8. CASE \A u \in g : report.settlement[u] = None
  <2>1. \A u \in g : u \in suppressed <=> u # Min(g)
    BY <1>6, <1>8, UnsettledCopies
  <2>2. Min(g) \in g
    BY <1>1, <1>5, FirstIssued
  <2> QED
    BY <1>1, <1>3, <1>4, <2>1, <2>2
<1> QED
  BY <1>7, <1>8

\* Suppression takes exactly the repeats: every event of a settlement is
\* counted once, by the row issued first, and no event loses all its rows.
THEOREM ExactSuppression == Spec => []SuppressionIsExact
<1>1. PoolInv => SuppressionIsExact
  BY CountedOnce, LooseOriginals DEF SuppressionIsExact
<1> QED
  BY <1>1, PoolInvariance, PTL

----------------------------------------------------------------------------
\* Recovery.

\* What a recovered order is: the only order left for one row alone.
LEMMA RecoveredIsOwned ==
    ASSUME PoolInv, NEW t \in Txns, recovered[t] # None
    PROVE  /\ t \in Anonymous
           /\ NarrowedOrders(t) = {recovered[t]}
           /\ \A u \in Anonymous \ {t} : NarrowedOrders(u) # {recovered[t]}
           /\ recovered[t] \in AtGross(t)
<1>1. stage \in {"accept", "except", "ready"}
  BY DEF PoolInv, TypeOK, RecoverInv
<1>2. t \in Anonymous /\ Owns(t, recovered[t])
  BY DEF PoolInv, RecoverInv
<1>3. \A u \in Anonymous : candidates[u] = NarrowedOrders(u)
  BY <1>1 DEF PoolInv, NarrowInv
<1>4. NarrowedOrders(t) = {recovered[t]}
  BY <1>2, <1>3 DEF Owns
<1>5. \A u \in Anonymous \ {t} : NarrowedOrders(u) # {recovered[t]}
  BY <1>2, <1>3 DEF Owns, Wanting
<1>6. NarrowedOrders(t) \subseteq AtGross(t)
  BY DEF NarrowedOrders
<1> QED
  BY <1>2, <1>4, <1>5, <1>6

LEMMA Unclaimed ==
    ASSUME PoolInv
    PROVE  RecoveredOrdersAreUnclaimed
<1> SUFFICES ASSUME NEW t \in Txns, NEW u \in Txns, t # u, recovered[t] # None
             PROVE recovered[u] # recovered[t] /\ report.order[u] # recovered[t]
  BY DEF RecoveredOrdersAreUnclaimed
<1>1. recovered[u] # recovered[t]
  BY RecoveredIsOwned
<1>2. recovered[t] \in orders.known /\ recovered[t] \notin NamedOrders
  BY RecoveredIsOwned DEF AtGross
<1>3. report.order[u] # recovered[t]
  BY <1>2 DEF NamedOrders
<1> QED
  BY <1>1, <1>3

\* The orders of a row's gross that no row names, as the code computes them.
LEMMA AtGrossIs ==
    ASSUME NEW t \in Txns
    PROVE  AtGross(t) = {x \in orders.known : orders.gross[x] = report.amount[t]
                             /\ \A u \in Txns : report.order[u] # x}
  BY DEF AtGross, NamedOrders

\* A set with two elements has more than one, and a singleton has not.
LEMMA MoreThanOne ==
    ASSUME NEW S, NEW o, NEW x, o \in S, x \in S, x # o, S # {}, IsFiniteSet(S)
    PROVE  Cardinality(S) > 1
<1>1. Cardinality(S) \in Nat
  BY FS_CardinalityType
<1>2. Cardinality(S) # 0
  BY FS_EmptySet
<1>3. Cardinality(S) # 1
  BY FS_Singleton
<1> QED
  BY <1>1, <1>2, <1>3

LEMMA Unambiguous ==
    ASSUME PoolInv
    PROVE  RecoveryIsUnambiguous
<1> SUFFICES ASSUME NEW t \in Txns, recovered[t] # None
             PROVE LET o == recovered[t]
                       others == {x \in orders.known \ {o} :
                                    orders.gross[x] = report.amount[t]
                                    /\ \A u \in Txns : report.order[u] # x}
                       near(x) == report.captured[t] - orders.day[x] \in 0..7
                   IN  /\ o \in orders.known /\ orders.gross[o] = report.amount[t]
                       /\ \A x \in others : ~near(x)
                       /\ others # {} => near(o)
  BY DEF RecoveryIsUnambiguous
<1> DEFINE o == recovered[t]
           others == AtGross(t) \ {o}
           near(x) == report.captured[t] - orders.day[x] \in 0..7
<1>1. NarrowedOrders(t) = {o} /\ o \in AtGross(t)
  BY RecoveredIsOwned
<1>2. o \in orders.known /\ orders.gross[o] = report.amount[t]
  BY <1>1 DEF AtGross
<1>3. \A x \in AtGross(t) : InWindow(x, t) <=> near(x)
  <2> TAKE x \in AtGross(t)
  <2>1. orders.day[x] \in Int /\ report.captured[t] \in Int
    BY InputTypes DEF PoolInv, AtGross, Register, Report
  <2> QED
    BY <2>1 DEF InWindow, ORDER_RECOVERY_WINDOW_DAYS
<1>4. CASE Cardinality(AtGross(t)) > 1
  <2>1. {x \in AtGross(t) : InWindow(x, t)} = {o}
    BY <1>1, <1>4 DEF NarrowedOrders
  <2>2. (\A x \in others : ~near(x)) /\ near(o)
    BY <1>1, <1>3, <2>1
  <2> QED
    BY <1>2, <2>2, AtGrossIs
<1>5. CASE ~(Cardinality(AtGross(t)) > 1)
  <2>1. AtGross(t) = {o}
    BY <1>1, <1>5 DEF NarrowedOrders
  <2>2. others = {}
    BY <2>1
  <2> QED
    BY <1>2, <2>2, AtGrossIs
<1> QED
  BY <1>4, <1>5

\* Two payments the report does not tell apart are narrowed to the same set.
LEMMA IgnoresRowOrder ==
    ASSUME PoolInv
    PROVE  RecoveryIgnoresRowOrder
<1> SUFFICES ASSUME NEW t \in Anonymous, NEW u \in Anonymous, t # u,
                    report.amount[t] = report.amount[u],
                    report.captured[t] = report.captured[u],
                    recovered[t] # None
             PROVE  FALSE
  BY DEF RecoveryIgnoresRowOrder
<1>1. AtGross(t) = AtGross(u)
  BY DEF AtGross
<1>2. \A o : InWindow(o, t) <=> InWindow(o, u)
  BY DEF InWindow
<1>3. NarrowedOrders(t) = NarrowedOrders(u)
  BY <1>1, <1>2 DEF NarrowedOrders
<1>4. t \in Txns
  BY DEF Anonymous, Active
<1> QED
  BY <1>3, <1>4, RecoveredIsOwned

LEMMA Complete ==
    ASSUME PoolInv
    PROVE  RecoveryIsComplete
<1> SUFFICES ASSUME stage \in {"except", "ready"},
                    NEW t \in Anonymous, NEW o \in orders.known,
                    {x \in orders.known : orders.gross[x] = report.amount[t]
                       /\ \A u \in Txns : report.order[u] # x} = {o},
                    \A u \in Anonymous \ {t} : report.amount[u] # report.amount[t]
             PROVE  recovered[t] = o
  BY DEF RecoveryIsComplete
<1>1. t \in Txns /\ Anonymous \subseteq Txns /\ o \in OrderIds
  BY InputTypes DEF Anonymous, Active, PoolInv
<1>2. AtGross(t) = {o}
  BY <1>1, AtGrossIs
<1>3. Cardinality(AtGross(t)) = 1
  BY <1>2, FS_Singleton
<1>4. candidates[t] = {o}
  <2>1. candidates[t] = NarrowedOrders(t)
    BY DEF PoolInv, NarrowInv
  <2>2. ~(Cardinality(AtGross(t)) > 1)
    BY <1>3
  <2> QED
    BY <1>2, <2>1, <2>2 DEF NarrowedOrders
<1>5. \A u \in Anonymous : candidates[u] = {o} => u = t
  <2> SUFFICES ASSUME NEW u \in Anonymous, candidates[u] = {o} PROVE u = t
    OBVIOUS
  <2>1. NarrowedOrders(u) = {o}
    BY DEF PoolInv, NarrowInv
  <2>2. o \in AtGross(u)
    BY <2>1 DEF NarrowedOrders
  <2>3. report.amount[u] = report.amount[t]
    BY <1>2, <2>2 DEF AtGross
  <2> QED
    BY <2>3
<1>6. Owns(t, o)
  BY <1>4, <1>5 DEF Owns, Wanting
<1> QED
  BY <1>1, <1>6 DEF PoolInv, RecoverInv

\* Recovery gives an order to a payment exactly when the data determines it:
\* nobody else's order, never a leftover, whatever the rows' order, and not
\* withheld where there is one payment and one order.
THEOREM SoundRecovery == Spec => []RecoveryIsSound
<1>1. PoolInv => RecoveryIsSound
  BY Unclaimed, Unambiguous, IgnoresRowOrder, Complete DEF RecoveryIsSound
<1> QED
  BY <1>1, PoolInvariance, PTL

----------------------------------------------------------------------------
\* Accounting.

LEMMA AccountedOnce ==
    ASSUME PoolInv
    PROVE  RowsAccountedOnce
<1> SUFFICES ASSUME stage = "ready", NEW t \in Txns
             PROVE  \/ /\ t \in Active /\ report.settlement[t] # None
                       /\ report.type[t] = "payment" =>
                            report.order[t] # None \/ recovered[t] # None
                       /\ \A x \in exceptions : x[1] # t
                    \/ \E x \in exceptions : {y \in exceptions : y[1] = t} = {x}
  BY DEF RowsAccountedOnce
<1>1. \A u, r : <<u, r>> \in exceptions <=>
        \/ u \in suppressed /\ r = "DUPLICATE_PSP_TXN"
        \/ u \in Active /\ r \in Unplaced(u)
  <2>1. \A u, r : <<u, r>> \in exceptions <=>
          \/ u \in suppressed /\ r = "DUPLICATE_PSP_TXN"
          \/ u \in Active \ todo /\ r \in Unplaced(u)
    BY DEF PoolInv, ExceptInv
  <2>2. todo = {}
    BY DEF PoolInv, ExceptInv
  <2> QED
    BY <2>1, <2>2
<1>2. \A x \in exceptions : x = <<x[1], x[2]>>
  BY DEF PoolInv, TypeOK
<1>3. t \in Active <=> t \notin suppressed
  BY DEF Active
<1>4. \A r : (\A q : <<t, q>> \in exceptions <=> q = r) =>
        {y \in exceptions : y[1] = t} = {<<t, r>>}
  BY <1>2
<1>5. CASE t \in suppressed
  <2>1. \A q : <<t, q>> \in exceptions <=> q = "DUPLICATE_PSP_TXN"
    BY <1>1, <1>3, <1>5
  <2> QED
    BY <1>4, <2>1
<1>6. CASE t \in Active /\ Unplaced(t) # {}
  <2>1. PICK r : Unplaced(t) = {r}
    BY <1>6 DEF Unplaced
  <2>2. \A q : <<t, q>> \in exceptions <=> q = r
    BY <1>1, <1>3, <1>6, <2>1
  <2> QED
    BY <1>4, <2>2
<1>7. CASE t \in Active /\ Unplaced(t) = {}
  <2>1. \A q : <<t, q>> \notin exceptions
    BY <1>1, <1>3, <1>7
  <2>2. \A x \in exceptions : x[1] # t
    BY <1>2, <2>1
  <2>3. /\ report.settlement[t] # None
        /\ ~(t \in Anonymous /\ recovered[t] = None)
    BY <1>7 DEF Unplaced
  <2> QED
    BY <1>7, <2>2, <2>3 DEF Anonymous
<1> QED
  BY <1>3, <1>5, <1>6, <1>7

\* Every row of the report ends up behind a settlement or in one exception.
THEOREM RowsAccounted == Spec => []RowsAccountedOnce
<1>1. PoolInv => RowsAccountedOnce
  BY AccountedOnce
<1> QED
  BY <1>1, PoolInvariance, PTL
=============================================================================
