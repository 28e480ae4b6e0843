--------------------------- MODULE DashboardProofs ---------------------------
(***************************************************************************)
(* Proofs about Dashboard for every number of runs, every order of their   *)
(* started_at, every page size and every number of readings.               *)
(*                                                                         *)
(* The order of the list is a strict total order, so the positions of the  *)
(* listed runs are the numbers below their count, each taken once.  A run  *)
(* that is inserted moves others to a higher position, never to a lower    *)
(* one: what has not been read yet stays at or behind the next offset.     *)
(***************************************************************************)
EXTENDS Dashboard, QualityProofs, FunctionTheorems

-----------------------------------------------------------------------------
(* The inductive invariant.                                                 *)

\* While a list is read, the items are as many as the rows up to the next
\* offset, and a run of the list as it was at first is read or comes later.
ReadingIsAPrefix ==
    view = "reading" =>
        /\ Len(items) = offset
        /\ offset <= Cardinality(Listed)
        /\ \A r \in since : r \in RunsRead \/ Position(r) >= offset

\* An item tells of a listed run; success is final.
ItemsAreOfRuns ==
    /\ RunsRead \subseteq Listed
    /\ \A i \in DOMAIN items :
          items[i].status = "succeeded" => run_status[items[i].run] = "succeeded"

DashboardInv ==
    /\ QualityInv
    /\ TypeOK
    /\ IsFiniteSet(Listed)
    /\ since \subseteq Listed
    /\ ReadingIsAPrefix
    /\ ItemsAreOfRuns
    /\ NoRunIsMissed
    /\ RepeatsAreBounded

-----------------------------------------------------------------------------
(* The order of the list.                                                   *)

LEMMA OrderIsStrict ==
    ASSUME NEW r \in Runs, NEW s \in Runs, NEW q \in Runs
    PROVE  /\ ~Precedes(r, r)
           /\ r # s => Precedes(r, s) \/ Precedes(s, r)
           /\ Precedes(q, r) /\ Precedes(r, s) => Precedes(q, s)
<1>1. /\ r \in Nat /\ s \in Nat /\ q \in Nat
      /\ StartedAt[r] \in Nat /\ StartedAt[s] \in Nat /\ StartedAt[q] \in Nat
  BY IdsAssumption, DashboardAssumption
<1>. QED  BY <1>1 DEF Precedes

\* The positions are the numbers from zero, each taken by one listed run.
LEMMA PositionsAreRanks ==
    ASSUME IsFiniteSet(Listed)
    PROVE  /\ \A r \in Listed : Position(r) \in Nat /\ Position(r) < Cardinality(Listed)
           /\ \A r, s \in Listed : Position(r) = Position(s) => r = s
           /\ \A k \in 0..(Cardinality(Listed) - 1) : \E r \in Listed : Position(r) = k
<1> DEFINE n == Cardinality(Listed)
           Before(r) == {s \in Listed : Precedes(s, r)}
           f == [r \in Listed |-> Position(r)]
<1>0. Listed \subseteq Runs /\ n \in Nat
  BY FS_CardinalityType DEF Listed
<1>1. ASSUME NEW r \in Listed
      PROVE  /\ IsFiniteSet(Before(r)) /\ Position(r) = Cardinality(Before(r))
             /\ Position(r) \in Nat /\ Position(r) < n
  <2>1. Before(r) \subseteq Listed \ {r}
    BY <1>0, OrderIsStrict
  <2>2. IsFiniteSet(Listed \ {r}) /\ Cardinality(Listed \ {r}) = n - 1
    BY FS_RemoveElement
  <2>3. Position(r) = Cardinality(Before(r))
    BY DEF Position
  <2> HIDE DEF Before, n
  <2>4. IsFiniteSet(Before(r)) /\ Cardinality(Before(r)) <= n - 1
    BY <2>1, <2>2, FS_Subset
  <2>5. Cardinality(Before(r)) \in Nat
    BY <2>4, FS_CardinalityType
  <2>. QED  BY <1>0, <2>3, <2>4, <2>5
<1>2. ASSUME NEW r \in Listed, NEW s \in Listed, Precedes(r, s)
      PROVE  Position(r) < Position(s)
  <2>1. Before(r) \cup {r} \subseteq Before(s)
    BY <1>0, <1>2, OrderIsStrict
  <2>2. r \notin Before(r)
    BY <1>0, OrderIsStrict
  <2>3. /\ IsFiniteSet(Before(r)) /\ IsFiniteSet(Before(s))
        /\ Position(r) = Cardinality(Before(r)) /\ Position(s) = Cardinality(Before(s))
        /\ Position(r) \in Nat /\ Position(s) \in Nat
    BY <1>1
  <2> HIDE DEF Before
  <2>4. Cardinality(Before(r) \cup {r}) = Position(r) + 1
    BY <2>2, <2>3, FS_AddElement
  <2>5. Cardinality(Before(r) \cup {r}) <= Position(s)
    BY <2>1, <2>3, FS_Subset
  <2>. QED  BY <2>3, <2>4, <2>5
<1>3. ASSUME NEW r \in Listed, NEW s \in Listed, Position(r) = Position(s)
      PROVE  r = s
  <2>1. ~Precedes(r, s) /\ ~Precedes(s, r)
    <3>1. /\ Precedes(r, s) => Position(r) < Position(s)
          /\ Precedes(s, r) => Position(s) < Position(r)
      BY <1>2
    <3>2. Position(r) \in Nat
      BY <1>1
    <3>. QED  BY <1>3, <3>1, <3>2
  <2>. QED  BY <1>0, <2>1, OrderIsStrict
<1>4. f \in Injection(Listed, 0..(n - 1))
  <2>1. f \in [Listed -> 0..(n - 1)]
    <3>1. \A r \in Listed : Position(r) \in Nat /\ Position(r) < n
      BY <1>1
    <3> HIDE DEF n
    <3>2. \A r \in Listed : Position(r) \in 0..(n - 1)
      BY <1>0, <3>1
    <3>. QED  BY <3>2
  <2>2. \A r, s \in Listed : f[r] = f[s] => r = s
    BY <1>3
  <2> HIDE DEF f, n
  <2>. QED  BY <2>1, <2>2, Fun_IsInj
<1>5. f \in Surjection(Listed, 0..(n - 1))
  <2> HIDE DEF f
  <2>1. IsFiniteSet(0..(n - 1)) /\ Cardinality(0..(n - 1)) = n
    BY <1>0, FS_Interval
  <2>. QED  BY <1>4, <2>1, FS_Injection
<1>6. \A k \in 0..(n - 1) : \E r \in Listed : f[r] = k
  <2> HIDE DEF f, n
  <2>. QED  BY <1>5, Fun_SurjectionProperties
<1>. QED  BY <1>1, <1>3, <1>6

\* As many listed runs stand at the positions of a window as it has positions.
LEMMA WindowsAreFull ==
    ASSUME IsFiniteSet(Listed), NEW a \in Nat, NEW b \in Nat,
           a <= b, b <= Cardinality(Listed)
    PROVE  Cardinality({r \in Listed : Position(r) >= a /\ Position(r) < b}) = b - a
<1> DEFINE W == {r \in Listed : Position(r) >= a /\ Position(r) < b}
           f == [r \in W |-> Position(r)]
<1>0. Cardinality(Listed) \in Nat
  BY FS_CardinalityType
<1>1. f \in [W -> a..(b - 1)]
  BY PositionsAreRanks
<1>2. \A r, s \in W : f[r] = f[s] => r = s
  BY PositionsAreRanks
<1>3. \A k \in a..(b - 1) : \E r \in W : f[r] = k
  <2> SUFFICES ASSUME NEW k \in a..(b - 1) PROVE \E r \in W : f[r] = k
    OBVIOUS
  <2>1. k \in 0..(Cardinality(Listed) - 1)
    BY <1>0
  <2>2. PICK r \in Listed : Position(r) = k
    BY <2>1, PositionsAreRanks
  <2>3. r \in W
    BY <2>2
  <2>. QED  BY <2>2, <2>3
<1>4. IsFiniteSet(W)
  BY FS_Subset
<1>5. Cardinality(a..(b - 1)) = b - a
  <2>1. b - 1 \in Int /\ a \in Int /\ (a > b - 1 <=> a = b) /\ (b - 1) - a + 1 = b - a
    OBVIOUS
  <2>2. Cardinality(a..(b - 1)) = IF a > b - 1 THEN 0 ELSE (b - 1) - a + 1
    BY <2>1, FS_Interval
  <2>. QED  BY <2>1, <2>2
<1>6. Cardinality(W) = Cardinality(a..(b - 1))
  <2> HIDE DEF f, W
  <2>1. f \in Bijection(W, a..(b - 1))
    BY <1>1, <1>2, <1>3, Fun_IsBij
  <2>2. ExistsBijection(W, a..(b - 1))
    BY <2>1, Fun_ExistsBij
  <2>. QED  BY <1>4, <2>2, FS_Bijection
<1>. QED  BY <1>5, <1>6

\* A page tells, in their order, of the runs at its positions: of all that are
\* left, or of a full page.
LEMMA PageHoldsItsWindow ==
    ASSUME IsFiniteSet(Listed), run_status \in [Runs -> {"absent", "running", "succeeded", "failed"}],
           NEW a \in Nat, a <= Cardinality(Listed)
    PROVE  /\ Page(a) \in Seq(Item)
           /\ Len(Page(a)) = IF Cardinality(Listed) - a < PageSize
                             THEN Cardinality(Listed) - a ELSE PageSize
           /\ \A r \in Listed : Position(r) >= a /\ Position(r) < a + PageSize =>
                 \E i \in 1..Len(Page(a)) : Page(a)[i].run = r
           /\ \A i \in 1..Len(Page(a)) :
                 \E r \in Listed : Page(a)[i] = [run |-> r, status |-> run_status[r]]
<1> DEFINE n == Cardinality(Listed)
           shown == {r \in Listed : Position(r) >= a /\ Position(r) < a + PageSize}
           m == Cardinality(shown)
           end == IF n - a < PageSize THEN n ELSE a + PageSize
           At(i) == CHOOSE x \in shown : Position(x) = a + i - 1
<1>0. n \in Nat /\ PageSize \in Nat \ {0} /\ Listed \subseteq Runs
      /\ \A r \in Listed : run_status[r] \in {"running", "succeeded", "failed"}
  BY FS_CardinalityType, DashboardAssumption DEF Listed
<1>1. end \in Nat /\ a <= end /\ end <= n
  BY <1>0
<1>2. shown = {r \in Listed : Position(r) >= a /\ Position(r) < end}
  BY <1>0, PositionsAreRanks
<1>3. m = end - a /\ m \in Nat
  <2>1. Cardinality({r \in Listed : Position(r) >= a /\ Position(r) < end}) = end - a
    BY <1>1, WindowsAreFull
  <2>2. m = end - a
    BY <1>2, <2>1
  <2> HIDE DEF end, m
  <2>. QED  BY <1>1, <2>2
<1>4. Page(a) = [i \in 1..m |-> [run |-> At(i), status |-> run_status[At(i)]]]
  BY DEF Page
<1>5. ASSUME NEW i \in 1..m PROVE At(i) \in shown /\ Position(At(i)) = a + i - 1
  <2>1. a + i - 1 \in 0..(n - 1) /\ a + i - 1 >= a /\ a + i - 1 < end
    BY <1>0, <1>1, <1>3
  <2>2. PICK r \in Listed : Position(r) = a + i - 1
    BY <2>1, PositionsAreRanks
  <2>3. r \in shown
    BY <1>2, <2>1, <2>2
  <2>. QED  BY <2>2, <2>3
<1>6. ASSUME NEW i \in 1..m
      PROVE  \E x \in Listed : /\ Position(x) = a + i - 1
                               /\ Page(a)[i] = [run |-> x, status |-> run_status[x]]
  <2>1. Page(a)[i] = [run |-> At(i), status |-> run_status[At(i)]]
    BY <1>4
  <2>2. At(i) \in Listed /\ Position(At(i)) = a + i - 1
    BY <1>5
  <2>. QED  BY <2>1, <2>2
<1> HIDE DEF At, m
<1>7. \A i \in 1..m : Page(a)[i] \in Item
  <2>1. ASSUME NEW x \in Listed PROVE [run |-> x, status |-> run_status[x]] \in Item
    BY <1>0 DEF Item
  <2>. QED  BY <1>6, <2>1
<1>8. Page(a) \in Seq(Item) /\ Len(Page(a)) = m
  <2>1. Page(a) \in [1..m -> Item]
    BY <1>4, <1>7
  <2>. QED  BY <1>3, <2>1
<1>9. ASSUME NEW r \in shown PROVE \E i \in 1..m : Page(a)[i].run = r
  <2> DEFINE i == Position(r) - a + 1
  <2>1. Position(r) \in Nat /\ Position(r) >= a /\ Position(r) < end /\ r \in Listed
    BY <1>2, PositionsAreRanks
  <2>2. i \in 1..m /\ Position(r) = a + i - 1
    BY <1>1, <1>3, <2>1
  <2> HIDE DEF i
  <2>3. PICK x \in Listed : /\ Position(x) = a + i - 1
                            /\ Page(a)[i] = [run |-> x, status |-> run_status[x]]
    BY <1>6, <2>2
  <2>4. x = r
    BY <2>1, <2>2, <2>3, PositionsAreRanks
  <2>. QED  BY <2>2, <2>3, <2>4
<1>10. m = IF n - a < PageSize THEN n - a ELSE PageSize
  BY <1>0, <1>3
<1>. QED  BY <1>6, <1>7, <1>8, <1>9, <1>10

\* Of the n runs at the first positions, those of S are read; so no more than
\* the runs outside of S are missing from the n runs read, or repeated in them.
LEMMA RepeatsHaveInsertions ==
    ASSUME NEW L, IsFiniteSet(L), NEW S \in SUBSET L, NEW R \in SUBSET L, NEW P \in SUBSET L,
           P \cap S \subseteq R
    PROVE  Cardinality(P) - Cardinality(R) <= Cardinality(L \ S)
<1>1. P \subseteq R \cup (L \ S)
  OBVIOUS
<1>2. IsFiniteSet(P) /\ IsFiniteSet(R) /\ IsFiniteSet(L \ S) /\ IsFiniteSet(R \cap (L \ S))
  BY FS_Subset
<1>3. /\ Cardinality(P) \in Nat /\ Cardinality(R) \in Nat /\ Cardinality(L \ S) \in Nat
      /\ Cardinality(R \cap (L \ S)) \in Nat
  BY <1>2, FS_CardinalityType
<1>4. IsFiniteSet(R \cup (L \ S))
      /\ Cardinality(R \cup (L \ S)) = Cardinality(R) + Cardinality(L \ S) - Cardinality(R \cap (L \ S))
  BY <1>2, FS_Union
<1>5. Cardinality(P) <= Cardinality(R \cup (L \ S))
  BY <1>1, <1>4, FS_Subset
<1>. QED  BY <1>3, <1>4, <1>5

-----------------------------------------------------------------------------
(* The steps of the database.                                               *)

\* Runs are added to the list, one at a time, and never leave it; a run that
\* has succeeded stays so.
LEMMA ListGrows ==
    ASSUME QualityTypeOK, IsFiniteSet(Listed), [QualityNext]_quality_vars
    PROVE  /\ Listed \subseteq Listed' /\ IsFiniteSet(Listed')
           /\ \A r \in Runs : run_status[r] = "succeeded" => run_status'[r] = "succeeded"
<1> USE DEF QualityTypeOK
<1>1. ASSUME NEW r \in Runs, StartRun(r)
      PROVE  /\ Listed \subseteq Listed' /\ IsFiniteSet(Listed')
             /\ \A s \in Runs : run_status[s] = "succeeded" => run_status'[s] = "succeeded"
  <2>1. Listed' = Listed \cup {r}
    BY <1>1 DEF StartRun, Listed
  <2>. QED  BY <1>1, <2>1, FS_AddElement DEF StartRun
<1>2. ASSUME NEW r \in Runs, FinishRun(r)
      PROVE  /\ Listed' = Listed
             /\ \A s \in Runs : run_status[s] = "succeeded" => run_status'[s] = "succeeded"
  BY <1>2 DEF FinishRun, Listed
<1>3. CASE UNCHANGED run_status
  BY <1>3 DEF Listed
<1>4. (\E r \in Runs : StartRun(r) \/ FinishRun(r)) \/ UNCHANGED run_status
  BY DEF QualityNext, EvaluatorStep, LoadZones, FindLatestRun, ReadTarget, Measure, UpsertResult,
     CountViolated, CommitEvaluation, AbandonEvaluation, quality_vars, quality_db
<1>. QED  BY <1>1, <1>2, <1>3, <1>4

\* A run that is inserted moves no other to a lower position.
LEMMA PositionsGrow ==
    ASSUME Listed \subseteq Listed', IsFiniteSet(Listed')
    PROVE  /\ \A r \in Runs : Position(r) \in Nat /\ Position(r)' \in Nat /\ Position(r) <= Position(r)'
           /\ Cardinality(Listed) \in Nat /\ Cardinality(Listed') \in Nat
           /\ Cardinality(Listed) <= Cardinality(Listed')
<1>1. ASSUME NEW r \in Runs
      PROVE Position(r) \in Nat /\ Position(r)' \in Nat /\ Position(r) <= Position(r)'
  <2> DEFINE Now == {s \in Listed : Precedes(s, r)}
             Next_ == {s \in Listed' : Precedes(s, r)}
  <2>1. Position(r) = Cardinality(Now) /\ Position(r)' = Cardinality(Next_)
    BY DEF Position, Precedes
  <2>2. Now \subseteq Next_ /\ Next_ \subseteq Listed'
    OBVIOUS
  <2> HIDE DEF Now, Next_
  <2>3. IsFiniteSet(Next_)
    BY <2>2, FS_Subset
  <2>4. IsFiniteSet(Now) /\ Cardinality(Now) <= Cardinality(Next_)
    BY <2>2, <2>3, FS_Subset
  <2>. QED  BY <2>1, <2>3, <2>4, FS_CardinalityType
<1>2. IsFiniteSet(Listed) /\ Cardinality(Listed) <= Cardinality(Listed')
  BY FS_Subset
<1>. QED  BY <1>1, <1>2, FS_CardinalityType

LEMMA QualityStepInv ==
    ASSUME DashboardInv, QualityInv', [QualityNext]_quality_vars, UNCHANGED dashboard
    PROVE  DashboardInv'
<1> USE DEF dashboard
<1>0. /\ view' = view /\ offset' = offset /\ items' = items
      /\ since' = since /\ readings' = readings
      /\ RunsRead' = RunsRead
  BY DEF RunsRead
<1>1. /\ QualityTypeOK /\ IsFiniteSet(Listed) /\ since \subseteq Listed /\ Listed \subseteq Runs
      /\ offset \in Nat /\ items \in Seq(Item)
  BY DEF DashboardInv, TypeOK, Listed
<1>2. /\ Listed \subseteq Listed' /\ IsFiniteSet(Listed')
      /\ \A r \in Runs : run_status[r] = "succeeded" => run_status'[r] = "succeeded"
  BY <1>1, ListGrows
<1>3. TypeOK'
  BY <1>0 DEF DashboardInv, TypeOK, QualityInv
<1>4. ReadingIsAPrefix'
  BY <1>0, <1>1, <1>2, PositionsGrow DEF DashboardInv, ReadingIsAPrefix
<1>5. ItemsAreOfRuns'
  <2>1. \A i \in DOMAIN items : items[i].run \in Runs
    BY <1>1 DEF DashboardInv, ItemsAreOfRuns, RunsRead
  <2>. QED  BY <1>0, <1>1, <1>2, <2>1 DEF DashboardInv, ItemsAreOfRuns
<1>6. RepeatsAreBounded'
  <2>1. RunsRead \subseteq Listed
    BY DEF DashboardInv, ItemsAreOfRuns
  <2>2. IsFiniteSet(RunsRead) /\ IsFiniteSet(Listed' \ since) /\ IsFiniteSet(Listed \ since)
        /\ Listed \ since \subseteq Listed' \ since
    BY <1>1, <1>2, <2>1, FS_Subset, FS_Difference
  <2>3. /\ Cardinality(RunsRead) \in Nat /\ Cardinality(Listed' \ since) \in Nat
        /\ Cardinality(Listed \ since) \in Nat
        /\ Cardinality(Listed \ since) <= Cardinality(Listed' \ since)
    BY <2>2, FS_CardinalityType, FS_Subset
  <2>4. Len(items) \in Nat
    BY <1>1
  <2>5. Len(items) - Cardinality(RunsRead) <= Cardinality(Listed \ since)
    BY DEF DashboardInv, RepeatsAreBounded
  <2>6. Len(items) - Cardinality(RunsRead) <= Cardinality(Listed' \ since)
    BY <2>3, <2>4, <2>5
  <2>. QED  BY <1>0, <2>6 DEF RepeatsAreBounded
<1>. QED
  BY <1>0, <1>1, <1>2, <1>3, <1>4, <1>5, <1>6 DEF DashboardInv, NoRunIsMissed

-----------------------------------------------------------------------------
(* The steps of the dashboard.                                              *)

\* A page adds the runs of its window to those that are read.
LEMMA ReadPageAdds ==
    ASSUME DashboardInv, ReadPage
    PROVE  /\ view = "reading" /\ UNCHANGED <<quality_vars, since, readings>>
           /\ Listed' = Listed
           /\ items' \in Seq(Item) /\ Len(items') = offset + Len(Page(offset))
           /\ RunsRead' \subseteq Listed
           /\ \A r \in since : r \in RunsRead' \/ Position(r) >= offset + PageSize
           /\ ItemsAreOfRuns'
<1> DEFINE page == Page(offset)
<1>0. /\ view = "reading" /\ items' = items \o page /\ items \in Seq(Item) /\ offset \in Nat
      /\ UNCHANGED <<quality_vars, since, readings>>
  BY DEF ReadPage, DashboardInv, TypeOK
<1>1. /\ Len(items) = offset /\ offset <= Cardinality(Listed) /\ since \subseteq Listed
      /\ \A r \in since : r \in RunsRead \/ Position(r) >= offset
      /\ IsFiniteSet(Listed)
      /\ run_status \in [Runs -> {"absent", "running", "succeeded", "failed"}]
  BY <1>0 DEF DashboardInv, ReadingIsAPrefix, QualityInv, QualityTypeOK
<1>2. /\ page \in Seq(Item)
      /\ \A r \in Listed : Position(r) >= offset /\ Position(r) < offset + PageSize =>
            \E i \in 1..Len(page) : page[i].run = r
      /\ \A i \in 1..Len(page) : \E r \in Listed : page[i] = [run |-> r, status |-> run_status[r]]
  BY <1>0, <1>1, PageHoldsItsWindow
<1>3. Listed' = Listed /\ run_status' = run_status
  BY <1>0 DEF Listed, quality_vars
<1> HIDE DEF page
<1>4. /\ items' \in Seq(Item) /\ Len(items') = Len(items) + Len(page)
      /\ Len(items) \in Nat /\ Len(page) \in Nat
      /\ \A i \in 1..Len(items) : items'[i] = items[i]
      /\ \A i \in 1..Len(page) : items'[Len(items) + i] = page[i]
  BY <1>0, <1>2
<1>5. ASSUME NEW i \in DOMAIN items'
      PROVE  \/ i \in DOMAIN items /\ items'[i] = items[i]
             \/ \E k \in 1..Len(page) : items'[i] = page[k]
  <2>1. i \in 1..(Len(items) + Len(page)) /\ DOMAIN items = 1..Len(items)
    BY <1>0, <1>4
  <2>2. CASE i <= Len(items)
    BY <1>4, <2>1, <2>2
  <2>3. CASE i > Len(items)
    <3>1. i - Len(items) \in 1..Len(page) /\ i = Len(items) + (i - Len(items))
      BY <1>4, <2>1, <2>3
    <3>. QED  BY <1>4, <3>1
  <2>. QED  BY <1>4, <2>1, <2>2, <2>3
<1>6. RunsRead \subseteq RunsRead'
  <2>1. ASSUME NEW i \in DOMAIN items PROVE i \in DOMAIN items' /\ items'[i].run = items[i].run
    <3>1. DOMAIN items = 1..Len(items) /\ DOMAIN items' = 1..Len(items')
      BY <1>0, <1>4
    <3>2. i \in 1..Len(items) /\ i \in 1..Len(items')
      BY <1>4, <3>1
    <3>. QED  BY <1>4, <3>1, <3>2
  <2>. QED  BY <2>1 DEF RunsRead
<1>7. ASSUME NEW k \in 1..Len(page) PROVE page[k].run \in RunsRead'
  <2>1. Len(items) + k \in DOMAIN items' /\ items'[Len(items) + k] = page[k]
    BY <1>4
  <2>. QED  BY <2>1 DEF RunsRead
<1>8. ASSUME NEW r \in since PROVE r \in RunsRead' \/ Position(r) >= offset + PageSize
  <2>1. Position(r) \in Nat /\ PageSize \in Nat /\ r \in Listed
    BY <1>1, PositionsAreRanks, DashboardAssumption
  <2>2. r \in RunsRead \/ Position(r) >= offset
    BY <1>1
  <2>3. CASE Position(r) >= offset /\ Position(r) < offset + PageSize
    BY <1>2, <1>7, <2>1, <2>3
  <2>. QED  BY <1>0, <1>6, <2>1, <2>2, <2>3
<1>9. ASSUME NEW i \in DOMAIN items'
      PROVE  items'[i].run \in Listed
             /\ (items'[i].status = "succeeded" => run_status[items'[i].run] = "succeeded")
  <2>1. CASE i \in DOMAIN items /\ items'[i] = items[i]
    BY <2>1 DEF DashboardInv, ItemsAreOfRuns, RunsRead
  <2>2. ASSUME NEW k \in 1..Len(page), items'[i] = page[k]
        PROVE  items'[i].run \in Listed
               /\ (items'[i].status = "succeeded" => run_status[items'[i].run] = "succeeded")
    <3>1. PICK r \in Listed : page[k] = [run |-> r, status |-> run_status[r]]
      BY <1>2
    <3>. QED  BY <2>2, <3>1
  <2>. QED  BY <1>5, <2>1, <2>2
<1>10. RunsRead' \subseteq Listed /\ ItemsAreOfRuns'
  BY <1>3, <1>9 DEF ItemsAreOfRuns, RunsRead
<1>. QED  BY <1>0, <1>1, <1>3, <1>4, <1>8, <1>10 DEF page

LEMMA ReadPageInv ==
    ASSUME DashboardInv, QualityInv', ReadPage
    PROVE  DashboardInv'
<1> DEFINE n == Cardinality(Listed)
           len == Len(Page(offset))
<1>1. /\ view = "reading" /\ UNCHANGED <<quality_vars, since, readings>>
      /\ Listed' = Listed
      /\ items' \in Seq(Item) /\ Len(items') = offset + len
      /\ RunsRead' \subseteq Listed
      /\ \A r \in since : r \in RunsRead' \/ Position(r) >= offset + PageSize
      /\ ItemsAreOfRuns'
  BY ReadPageAdds
<1>2. /\ IsFiniteSet(Listed) /\ n \in Nat /\ offset \in Nat /\ offset <= n /\ PageSize \in Nat \ {0}
      /\ since \subseteq Listed /\ Listed \subseteq Runs
  BY <1>1, FS_CardinalityType, DashboardAssumption
     DEF DashboardInv, ReadingIsAPrefix, TypeOK, Listed
<1>3. len = IF n - offset < PageSize THEN n - offset ELSE PageSize
  BY <1>2, PageHoldsItsWindow DEF DashboardInv, QualityInv, QualityTypeOK
<1>4. \A r \in Runs : Position(r)' = Position(r)
  BY <1>1 DEF Position
<1>5. \A r \in Listed : Position(r) \in Nat /\ Position(r) < n
  BY <1>2, PositionsAreRanks
<1>6. \/ /\ len < PageSize /\ view' = "listed" /\ offset' = offset
      \/ /\ len >= PageSize /\ view' = "reading" /\ offset' = offset + PageSize
  BY <1>1 DEF ReadPage, NextOffset
<1> HIDE DEF len, n
<1>7. len \in Nat /\ offset + len <= n
      /\ (view' = "listed" => offset + len = n /\ n < offset + PageSize)
      /\ (view' = "reading" => len = PageSize)
  BY <1>2, <1>3, <1>6
<1>8. \A r \in since : r \in RunsRead' \/ Position(r) >= offset + len
  BY <1>1, <1>2, <1>5, <1>6, <1>7
<1>9. view' = "listed" => since \subseteq RunsRead'
  BY <1>1, <1>2, <1>5, <1>7
<1>10. TypeOK'
  BY <1>1, <1>2, <1>6 DEF TypeOK, DashboardInv, QualityInv, quality_vars
<1>11. ReadingIsAPrefix'
  BY <1>1, <1>2, <1>4, <1>6, <1>7 DEF ReadingIsAPrefix, n
<1>12. RepeatsAreBounded'
  <2> DEFINE P == {r \in Listed : Position(r) >= 0 /\ Position(r) < offset + len}
  <2>1. Cardinality(P) = (offset + len) - 0
    BY <1>2, <1>7, WindowsAreFull DEF n
  <2>2. P \cap since \subseteq RunsRead' /\ P \subseteq Listed
    BY <1>2, <1>5, <1>7, <1>8
  <2> HIDE DEF P
  <2>3. Cardinality(P) - Cardinality(RunsRead') <= Cardinality(Listed \ since)
    BY <1>1, <1>2, <2>2, RepeatsHaveInsertions
  <2>. QED  BY <1>1, <1>2, <1>7, <2>1, <2>3 DEF RepeatsAreBounded
<1>13. NoRunIsMissed'
  BY <1>1, <1>6, <1>9 DEF NoRunIsMissed
<1>. QED  BY <1>1, <1>2, <1>10, <1>11, <1>12, <1>13 DEF DashboardInv

LEMMA NothingReadInv ==
    ASSUME DashboardInv, QualityInv', StartReading \/ ReadingFails \/ Refresh
    PROVE  DashboardInv'
<1>1. /\ UNCHANGED quality_vars /\ items' = <<>> /\ offset' = 0 /\ since' \in {Listed, {}}
      /\ view' \in {"reading", "empty"}
      /\ readings' \in 0..MaxReadings
  BY DashboardAssumption DEF StartReading, ReadingFails, Refresh, DashboardInv, TypeOK
<1>2. Listed' = Listed /\ IsFiniteSet(Listed) /\ Listed \subseteq Runs
  BY <1>1 DEF Listed, quality_vars, DashboardInv
<1>3. TypeOK'
  BY <1>1, <1>2 DEF TypeOK, DashboardInv, QualityInv
<1>4. RunsRead' = {} /\ Cardinality(RunsRead') = 0 /\ Len(items') = 0 /\ DOMAIN items' = {}
  <2>1. Len(items') = 0 /\ DOMAIN items' = {}
    BY <1>1
  <2>2. RunsRead' = {}
    BY <2>1 DEF RunsRead
  <2>. QED  BY <2>1, <2>2, FS_EmptySet
<1>5. \A r \in Runs : Position(r)' \in Nat
  BY <1>2, PositionsGrow
<1>6. IsFiniteSet((Listed \ since)') /\ Cardinality((Listed \ since)') \in Nat
      /\ Cardinality(Listed') \in Nat
  BY <1>2, FS_Difference, FS_CardinalityType
<1>7. ReadingIsAPrefix'
  BY <1>1, <1>2, <1>4, <1>5, <1>6 DEF ReadingIsAPrefix
<1>8. RepeatsAreBounded'
  BY <1>4, <1>6 DEF RepeatsAreBounded
<1>. QED
  BY <1>1, <1>2, <1>3, <1>4, <1>7, <1>8 DEF DashboardInv, ItemsAreOfRuns, NoRunIsMissed

-----------------------------------------------------------------------------
(* The theorems.                                                            *)

LEMMA InitDashboardInv == Init => DashboardInv
<1> SUFFICES ASSUME Init PROVE DashboardInv
  OBVIOUS
<1>1. QualityInv
  BY QualityInitInv DEF Init
<1>2. Listed = {}
  BY DEF Init, QualityInit, Listed
<1>3. TypeOK
  BY <1>1, DashboardAssumption DEF Init, TypeOK, QualityInv
<1>4. RunsRead = {} /\ Len(items) = 0 /\ DOMAIN items = {} /\ since = {} /\ view = "empty"
  BY DEF Init, RunsRead
<1>5. RepeatsAreBounded
  BY <1>2, <1>4, FS_EmptySet DEF RepeatsAreBounded
<1>. QED
  BY <1>1, <1>2, <1>3, <1>4, <1>5, FS_EmptySet
     DEF DashboardInv, ReadingIsAPrefix, ItemsAreOfRuns, NoRunIsMissed

\* Every step is one of the database's or leaves the database alone.
LEMMA StepKeepsInv ==
    ASSUME DashboardInv, [Next]_vars
    PROVE  DashboardInv'
<1>1. [QualityNext]_quality_vars
  BY DEF Next, DashboardStep, StartReading, ReadPage, ReadingFails, Refresh,
     vars, quality_vars
<1>2. QualityInv'
  <2>1. QualityInv
    BY DEF DashboardInv
  <2>. QED  BY <1>1, <2>1, StepTypes, StepCounts, StepLone, StepResults DEF QualityInv
<1>3. CASE DashboardStep
  BY <1>2, <1>3, ReadPageInv, NothingReadInv DEF DashboardStep
<1>4. CASE ~DashboardStep
  <2>1. UNCHANGED dashboard
    BY <1>4 DEF Next, vars, dashboard
  <2>. QED  BY <1>1, <1>2, <2>1, QualityStepInv
<1>. QED  BY <1>3, <1>4

\* The invariant holds in every reachable state.
THEOREM DashboardInvariant == Spec => []DashboardInv
BY InitDashboardInv, StepKeepsInv, PTL DEF Spec

\* Every variable keeps its type.
THEOREM DashboardTypeCorrect == Spec => []TypeOK
<1>1. DashboardInv => TypeOK
  BY DEF DashboardInv
<1>. QED  BY <1>1, DashboardInvariant, PTL

\* A complete list holds every run committed before reading began
\* (APIClient._all_pages over list_runs).
THEOREM CompleteListsMissNothing == Spec => []NoRunIsMissed
<1>1. DashboardInv => NoRunIsMissed
  BY DEF DashboardInv
<1>. QED  BY <1>1, DashboardInvariant, PTL

\* A list repeats at most as many rows as runs were inserted while it was read.
THEOREM RepeatsNeedInsertions == Spec => []RepeatsAreBounded
<1>1. DashboardInv => RepeatsAreBounded
  BY DEF DashboardInv
<1>. QED  BY <1>1, DashboardInvariant, PTL
=============================================================================
