---------------------------- MODULE VideosProofs ----------------------------
(***************************************************************************)
(* What holds of the mapping, the sheets and the panel for every set of    *)
(* products, languages, files and sheets.                                  *)
(***************************************************************************)
EXTENDS Videos, WellFoundedInduction, SequenceTheorems, TLAPS

(* A page gets a file exactly when one is confirmed to it                  *)
LEMMA ResolveOne ==
    ASSUME NEW m, NEW g, NEW l
    PROVE  Resolve(m, g, l) # NoFile <=> One(Claimed(m, g, l))
<1>1. Claimed(m, g, l) \subseteq Files
  BY DEF Claimed
<1>2. One(Claimed(m, g, l)) => (CHOOSE f \in Claimed(m, g, l) : TRUE) \in Claimed(m, g, l)
  BY DEF One
<1>. QED
  BY <1>1, <1>2, VideoMapAssumption DEF Resolve

(* None, one or several files are confirmed                                *)
LEMMA NoneOneOrSeveral ==
    ASSUME NEW m, NEW g, NEW l
    PROVE  /\ One(Claimed(m, g, l)) =>
                ~Several(Claimed(m, g, l))
           /\ Status(m, g, l) = "confirmed" <=> One(Claimed(m, g, l))
           /\ Status(m, g, l) = "clashing" <=> Several(Claimed(m, g, l))
<1>1. One(Claimed(m, g, l)) => ~Several(Claimed(m, g, l))
  BY DEF One, Several
<1>. QED
  BY <1>1, ResolveOne DEF Status

(* The report holds the products the gate does not admit, and the doctor   *)
(* and the report name the same products that publish bare                 *)
LEMMA ReportsFollowTheGate ==
    ASSUME NEW m, NEW r, r # "off"
    PROVE  ReportedHeld(m, r) = HeldForVideo(m, r) /\ WithoutVideo(m, r) = Bare(m, r)
<1>1. ASSUME NEW g \in Products
      PROVE  /\ HasClash(m, g) <=> g \in Clashing(m)
             /\ AttachesVideo(m, g) <=> g \in FullyMapped(m)
  BY NoneOneOrSeveral DEF HasClash, Clashing, AttachesVideo, FullyMapped
<1>2. ASSUME NEW g \in FullyMapped(m) PROVE g \notin Clashing(m)
  BY NoneOneOrSeveral DEF FullyMapped, Clashing
<1>3. ReportedHeld(m, r) = HeldForVideo(m, r)
  BY <1>1, <1>2 DEF ReportedHeld, HeldForVideo, Admits
<1>4. WithoutVideo(m, r) = Bare(m, r)
  BY <1>1, <1>2 DEF WithoutVideo, Bare, Admits
<1>. QED
  BY <1>3, <1>4

-----------------------------------------------------------------------------
(* A sheet fills only rows that are unset                                  *)
LEMMA FillsAreUnset ==
    ASSUME NEW m, NEW s, NEW x, NEW r \in DOMAIN Edits(m, s, x)
    PROVE  r \in DOMAIN m /\ m[r] = Unset
  BY DEF Edits, Fills, Filling, Answered, Addressed

(* What is signed off stays, whatever was edited since the plan was drawn  *)
THEOREM SignOffIsKept == Spec => SignedOffStays
<1>1. ASSUME NEW n \in 1..MaxSheets, Apply(n), NEW r \in DOMAIN mapping, mapping[r] # Unset
      PROVE  mapping'[r] = mapping[r]
  <2>1. mapping' = Applied(mapping, Fillable(n))
    BY <1>1 DEF Apply
  <2>2. r \notin DOMAIN Fillable(n)
    BY <1>1, FillsAreUnset DEF Fillable
  <2>. QED
    BY <2>1, <2>2 DEF Applied
<1>2. \A n \in 1..MaxSheets : Apply(n) =>
          \A r \in DOMAIN mapping : mapping[r] # Unset => mapping'[r] = mapping[r]
  BY <1>1
<1>. QED
  BY <1>2, PTL DEF SignedOffStays

-----------------------------------------------------------------------------
(* Some lines of a sheet have a last one                                   *)
LEMMA LastExists ==
    ASSUME NEW N \in Nat, NEW T, T \subseteq 1..N, T # {}
    PROVE  \E i \in T : \A j \in T : j <= i
<1>. DEFINE D == {N - i : i \in T}
<1>1. D \subseteq Nat /\ D # {}
  <2>1. ASSUME NEW i \in T PROVE N - i \in Nat
    BY i \in 1..N
  <2>. QED
    BY <2>1
<1>2. PICK d \in D : \A e \in D : ~ (<<e, d>> \in OpToRel(<, Nat))
  <2>. HIDE DEF D
  <2>. QED
    BY <1>1, WFMin, NatLessThanWellFounded
<1>3. \A e \in D : ~ (e < d)
  <2>. HIDE DEF D
  <2>. QED
    BY <1>1, <1>2 DEF OpToRel
<1>4. PICK i \in T : d = N - i
  OBVIOUS
<1>5. ASSUME NEW j \in T PROVE j <= i
  <2>1. N - j \in D
    OBVIOUS
  <2>2. ~ (N - j < N - i)
    BY <2>1, <1>3, <1>4
  <2>. QED
    BY <2>2
<1>. QED
  BY <1>5

(* What a row is filled with is what a line that fills it gives            *)
LEMMA FillsComeFromLines ==
    ASSUME NEW m, NEW s \in Seq(Lines), NEW x, NEW r \in DOMAIN Edits(m, s, x)
    PROVE  \E i \in Fills(m, s, x) : Row(s, i) = r /\ Edits(m, s, x)[r] = s[i].given
<1>. DEFINE L == Fills(m, s, x)
            T == {i \in L : Row(s, i) = r}
<1>1. L \subseteq 1..Len(s)
  BY DEF Fills, Filling, Answered, Addressed
<1>2. T \subseteq 1..Len(s) /\ T # {}
  BY <1>1 DEF Edits
<1>3. \E i \in L : Row(s, i) = r /\ \A j \in L : Row(s, j) = r => j <= i
  <2>1. Len(s) \in Nat
    OBVIOUS
  <2>2. PICK i \in T : \A j \in T : j <= i
    <3>. HIDE DEF T
    <3>. QED
      BY <1>2, <2>1, LastExists
  <2>. QED
    BY <2>2
<1>4. LastOf(s, L, r) \in L /\ Row(s, LastOf(s, L, r)) = r
  BY <1>3 DEF LastOf
<1>5. Edits(m, s, x)[r] = s[LastOf(s, L, r)].given
  BY DEF Edits
<1>. QED
  BY <1>4, <1>5

(* A line that fills has its product to itself in its language             *)
LEMMA FillsAreAlone ==
    ASSUME NEW m, NEW s, NEW x, NEW i \in Fills(m, s, x), s[i].given # Skip
    PROVE  /\ \A f \in Claimed(m, s[i].given, s[i].language) : f = s[i].file
           /\ \A j \in Fills(m, s, x) :
                 s[j].given = s[i].given /\ s[j].language = s[i].language
                    => s[j].file = s[i].file
  BY DEF Fills, Ambiguous

(* Filling a mapping in makes no product clash                             *)
LEMMA FillingAddsNoClash ==
    ASSUME NEW m, NEW s \in Seq(Lines), NEW x
    PROVE  Clashing(Applied(m, Edits(m, s, x))) \subseteq Clashing(m)
<1>. DEFINE e == Edits(m, s, x)
            after == Applied(m, e)
<1>. SUFFICES ASSUME NEW g \in Products, NEW l \in Languages,
                     NEW f \in Claimed(after, g, l), NEW h \in Claimed(after, g, l), f # h
              PROVE  g \in Clashing(m)
  BY DEF Clashing, Several
<1>1. g # Skip
  BY VideoMapAssumption
<1>2. ASSUME NEW k \in Claimed(after, g, l), <<l, k>> \notin DOMAIN e
      PROVE  k \in Claimed(m, g, l)
  BY <1>2 DEF Claimed, Applied
<1>3. ASSUME NEW k \in Claimed(after, g, l), <<l, k>> \in DOMAIN e
      PROVE  \E i \in Fills(m, s, x) :
                s[i].language = l /\ s[i].file = k /\ s[i].given = g
  <2>1. e[<<l, k>>] = g
    <3>. HIDE DEF e
    <3>. QED
      BY <1>3 DEF Claimed, Applied
  <2>. QED
    BY <1>3, <2>1, FillsComeFromLines DEF Row
<1>4. ASSUME NEW k \in Claimed(after, g, l), NEW other \in Claimed(after, g, l), k # other,
             <<l, k>> \in DOMAIN e
      PROVE  FALSE
  <2>1. PICK i \in Fills(m, s, x) : s[i].language = l /\ s[i].file = k /\ s[i].given = g
    <3>. HIDE DEF e, after
    <3>. QED
      BY <1>3, <1>4
  <2>2. CASE <<l, other>> \in DOMAIN e
    <3>1. PICK j \in Fills(m, s, x) :
              s[j].language = l /\ s[j].file = other /\ s[j].given = g
      <4>. HIDE DEF e, after
      <4>. QED
        BY <1>3, <2>2, <1>4
    <3>. QED
      BY <2>1, <3>1, <1>1, <1>4, FillsAreAlone
  <2>3. CASE <<l, other>> \notin DOMAIN e
    <3>1. other \in Claimed(m, g, l)
      BY <1>2, <1>4, <2>3
    <3>. QED
      BY <2>1, <3>1, <1>1, <1>4, FillsAreAlone
  <2>. QED
    BY <2>2, <2>3
<1>5. f \in Claimed(m, g, l) /\ h \in Claimed(m, g, l)
  <2>. HIDE DEF e, after
  <2>. QED
    BY <1>2, <1>4
<1>. QED
  BY <1>5 DEF Clashing, Several

(* What the fills of a sheet, and the mapping filled in, are made of       *)
LEMMA EditsTyped ==
    ASSUME NEW m \in Mappings, NEW s \in Seq(Lines), NEW x
    PROVE  /\ Edits(m, s, x) \in UNION {[R -> Products \cup {Skip}] : R \in SUBSET Rows}
           /\ Applied(m, Edits(m, s, x)) \in Mappings
<1>. DEFINE e == Edits(m, s, x)
<1>1. m \in [DOMAIN m -> Cells] /\ DOMAIN m \subseteq Rows
  BY DEF Mappings
<1>2. e = [r \in DOMAIN e |-> e[r]]
  BY DEF Edits
<1>3. DOMAIN e \subseteq Rows
  BY <1>1, FillsAreUnset
<1>4. ASSUME NEW r \in DOMAIN e PROVE e[r] \in Products \cup {Skip}
  <2>1. PICK i \in Fills(m, s, x) : e[r] = s[i].given
    BY <1>4, FillsComeFromLines
  <2>2. s[i].given \in Products \cup {Skip}
    BY DEF Fills, Filling, Answered
  <2>. QED
    BY <2>1, <2>2
<1>5. e \in [DOMAIN e -> Products \cup {Skip}]
  <2>. HIDE DEF e
  <2>. QED
    BY <1>2, <1>4
<1>6. Applied(m, e) \in [DOMAIN m -> Cells]
  <2>. HIDE DEF e
  <2>. QED
    BY <1>1, <1>4 DEF Applied, Cells
<1>. QED
  <2>. HIDE DEF e
  <2>1. e \in UNION {[R -> Products \cup {Skip}] : R \in SUBSET Rows}
    BY <1>3, <1>5
  <2>2. Applied(m, e) \in Mappings
    BY <1>1, <1>6 DEF Mappings
  <2>. QED
    BY <2>1, <2>2 DEF e

(* A mapping without rows is one                                           *)
LEMMA EmptyTyped ==
    /\ <<>> \in Mappings
    /\ <<>> \in UNION {[R -> Products \cup {Skip}] : R \in SUBSET Rows}
    /\ \A S : <<>> \in [{} -> S]
<1>1. \A S : <<>> \in [{} -> S]
  OBVIOUS
<1>2. {} \in SUBSET Rows
  OBVIOUS
<1>. QED
  BY <1>1, <1>2 DEF Mappings

(* A row's file is a file or none                                          *)
LEMMA ResolveTyped ==
    ASSUME NEW m, NEW g, NEW l PROVE Resolve(m, g, l) \in Files \cup {NoFile}
<1>1. Claimed(m, g, l) \subseteq Files
  BY DEF Claimed
<1>2. One(Claimed(m, g, l)) => (CHOOSE f \in Claimed(m, g, l) : TRUE) \in Claimed(m, g, l)
  BY DEF One
<1>. QED
  BY <1>1, <1>2 DEF Resolve

(* The windows and the sheets                                              *)
WindowsOK ==
    /\ sheets \in Seq(Kept) /\ note \in 0..MaxSheets
    /\ panels \in [1..MaxSheets -> Panels]

(* A window that is drawn is of its type                                   *)
LEMMA DrawTyped ==
    ASSUME TypeOK, NEW n \in 1..MaxSheets, NEW panel \in Panels, NEW m \in Mappings,
           Draw(n, panel, m)
    PROVE  note' \in 0..MaxSheets /\ panels' \in [1..MaxSheets -> Panels]
<1>. DEFINE fills == IF readable THEN Edits(m, panel.sheet, panel.exported) ELSE <<>>
            drawn == [panel EXCEPT !.drawn = readable, !.fills = fills]
<1>1. fills \in UNION {[R -> Products \cup {Skip}] : R \in SUBSET Rows}
  BY EditsTyped, EmptyTyped DEF Panels
<1>2. drawn \in Panels
  <2>. HIDE DEF fills
  <2>. QED
    BY <1>1 DEF Panels, TypeOK
<1>3. panels' = [panels EXCEPT ![n] = drawn]
  BY DEF Draw
<1>. QED
  <2>. HIDE DEF drawn
  <2>1. MaxSheets \in Nat
    BY VideosAssumption
  <2>. QED
    BY <1>2, <1>3, <2>1 DEF Draw, TypeOK

(* Every step of the windows keeps the types of sheets and mapping         *)
LEMMA WindowsStep ==
    ASSUME TypeOK,
           \/ \E s \in Sheets : Upload(s)
           \/ \E n \in 1..MaxSheets : ChooseColumns(n) \/ Apply(n)
           \/ \E i \in DOMAIN sheets : SheetEdited(i)
    PROVE  WindowsOK' /\ mapping' \in Mappings
<1>1. ASSUME NEW s \in Sheets, Upload(s) PROVE WindowsOK' /\ mapping' \in Mappings
  <2>. DEFINE panel == [open |-> TRUE, sheet |-> s, exported |-> exported,
                        drawn |-> FALSE, fills |-> <<>>]
  <2>1. panel \in Panels
    BY EmptyTyped, VideosAssumption DEF Panels, TypeOK
  <2>2. PICK n \in 1..MaxSheets :
            /\ sheets' = Append(sheets, [number |-> n, sheet |-> s, moved |-> FALSE])
            /\ \/ Draw(n, panel, mapping)
               \/ panels' = [panels EXCEPT ![n] = panel] /\ UNCHANGED note
    BY <1>1 DEF Upload
  <2>3. sheets' \in Seq(Kept)
    BY <2>2 DEF Kept, TypeOK
  <2>4. note' \in 0..MaxSheets /\ panels' \in [1..MaxSheets -> Panels]
    <3>1. CASE Draw(n, panel, mapping)
      <4>. HIDE DEF panel
      <4>. QED
        BY <2>1, <3>1, DrawTyped DEF TypeOK
    <3>2. CASE panels' = [panels EXCEPT ![n] = panel] /\ UNCHANGED note
      <4>. HIDE DEF panel
      <4>. QED
        BY <2>1, <3>2 DEF TypeOK
    <3>. QED
      BY <2>2, <3>1, <3>2
  <2>. QED
    BY <1>1, <2>3, <2>4 DEF Upload, folder, WindowsOK, TypeOK
<1>2. ASSUME NEW n \in 1..MaxSheets, ChooseColumns(n)
      PROVE  WindowsOK' /\ mapping' \in Mappings
  BY <1>2, DrawTyped DEF ChooseColumns, folder, WindowsOK, TypeOK
<1>3. ASSUME NEW n \in 1..MaxSheets, Apply(n) PROVE WindowsOK' /\ mapping' \in Mappings
  <2>1. panels[n] \in Panels /\ panels[n].sheet \in Seq(Lines)
    BY DEF TypeOK, Panels
  <2>2. mapping' \in Mappings
    BY <1>3, <2>1, EditsTyped DEF Apply, Fillable, TypeOK
  <2>3. note' \in 0..MaxSheets /\ panels' \in [1..MaxSheets -> Panels]
    BY <1>3, <2>1, <2>2, DrawTyped DEF Apply
  <2>. QED
    BY <1>3, <2>2, <2>3 DEF Apply, WindowsOK, TypeOK
<1>4. ASSUME NEW i \in DOMAIN sheets, SheetEdited(i)
      PROVE  WindowsOK' /\ mapping' \in Mappings
  <2>1. Len(sheets) \in Nat /\ i \in 1..Len(sheets) /\ sheets[i] \in Kept
    BY DEF TypeOK
  <2>2. [sheets[i] EXCEPT !.moved = TRUE] \in Kept
    BY <2>1 DEF Kept
  <2>3. SubSeq(sheets, 1, i - 1) \in Seq(Kept)
    BY <2>1, SubSeqProperties DEF TypeOK
  <2>4. SubSeq(sheets, i + 1, Len(sheets)) \in Seq(Kept)
    BY <2>1, SubSeqProperties DEF TypeOK
  <2>5. sheets' \in Seq(Kept)
    <3>1. sheets' = Append(SubSeq(sheets, 1, i - 1) \o SubSeq(sheets, i + 1, Len(sheets)),
                           [sheets[i] EXCEPT !.moved = TRUE])
      BY <1>4 DEF SheetEdited
    <3>2. SubSeq(sheets, 1, i - 1) \o SubSeq(sheets, i + 1, Len(sheets)) \in Seq(Kept)
      BY <2>3, <2>4, ConcatProperties
    <3>. QED
      BY <2>2, <3>1, <3>2, AppendProperties
  <2>. QED
    BY <1>4, <2>5 DEF SheetEdited, folder, WindowsOK, TypeOK
<1>. QED
  BY <1>1, <1>2, <1>3, <1>4

(* The pages, their entries, the plan and the run                          *)
PublishedOK ==
    /\ saved \in [Units -> Entries] /\ pages \in [Units -> Shown] /\ unsure \subseteq Units
    /\ plan \in [units : SUBSET Units, content : Nat]
    /\ \E D \in SUBSET Units : run \in Runs(D)

(* No run is a run, and no entry an entry                                  *)
LEMMA IdleTyped == Idle \in Runs({}) /\ NoEntry \in Entries
<1>1. NoEntry \in Entries
  BY DEF NoEntry, Entries
<1>2. [u \in Units |-> NoEntry] \in [Units -> Entries]
  BY <1>1
<1>. QED
  BY <1>1, <1>2, EmptyTyped DEF Idle, Runs

(* What a row gets is a file, an entry and a page                          *)
LEMMA RowTyped ==
    ASSUME TypeOK, NEW u \in Units
    PROVE  RowFile(u) \in Files \cup {NoFile} /\ RowEntry(u) \in Entries /\ RowPage(u) \in Shown
<1>1. RowFile(u) \in Files \cup {NoFile}
  BY ResolveTyped DEF RowFile
<1>2. saved[u] \in Entries /\ pages[u] \in Shown /\ run.content \in Nat
  BY DEF TypeOK, Runs
<1>. QED
  BY <1>1, <1>2 DEF RowEntry, RowPage, Entries, Shown, TypeOK

(* Every step of a run keeps the types of what is published                *)
LEMMA RunStepTyped == TypeOK /\ RunSteps => PublishedOK'
<1>. SUFFICES ASSUME TypeOK, RunSteps PROVE PublishedOK'
  OBVIOUS
<1>. PICK D \in SUBSET Units : run \in Runs(D)
  BY DEF TypeOK
<1>1. ASSUME NEW u \in Units, WriteRow(u) PROVE PublishedOK'
  <2>. DEFINE done == [x \in D \cup {u} |-> IF x = u THEN RowEntry(u) ELSE run.done[x]]
  <2>1. RowEntry(u) \in Entries /\ RowPage(u) \in Shown
    BY RowTyped
  <2>2. run.done \in [D -> Entries] /\ DOMAIN run.done = D
    BY DEF Runs
  <2>3. done \in [D \cup {u} -> Entries]
    BY <2>1, <2>2
  <2>4. run' = [run EXCEPT !.todo = @ \ {u}, !.doing = {u[1]}, !.done = done]
    BY <1>1, <2>2 DEF WriteRow
  <2>5. u[1] \in InScope
    BY DEF Units
  <2>6. run' \in Runs(D \cup {u})
    <3>. HIDE DEF done
    <3>. QED
      BY <2>3, <2>4, <2>5 DEF Runs
  <2>7. pages' \in [Units -> Shown]
    BY <1>1, <2>1 DEF WriteRow, TypeOK
  <2>8. saved' = saved /\ plan' = plan /\ unsure' \subseteq Units
    BY <1>1 DEF WriteRow, TypeOK
  <2>. QED
    BY <2>6, <2>7, <2>8 DEF PublishedOK, TypeOK
<1>2. ASSUME NEW g \in InScope, Commit(g) PROVE PublishedOK'
  <2>. DEFINE mem == [u \in Units |-> IF u \in D THEN run.done[u] ELSE run.mem[u]]
  <2>1. run.done \in [D -> Entries] /\ DOMAIN run.done = D /\ run.mem \in [Units -> Entries]
    BY DEF Runs
  <2>2. mem \in [Units -> Entries]
    BY <2>1
  <2>3. run' = [run EXCEPT !.doing = {}, !.done = <<>>, !.kept = @ \cup D, !.mem = mem]
    BY <1>2, <2>1 DEF Commit
  <2>4. run' \in Runs({})
    <3>. HIDE DEF mem
    <3>. QED
      BY <2>2, <2>3, EmptyTyped DEF Runs
  <2>. QED
    BY <1>2, <2>4 DEF Commit, published, PublishedOK, TypeOK
<1>3. CASE EndRun
  <2>1. run' \in Runs({}) /\ saved' \in [Units -> Entries]
    BY <1>3, IdleTyped DEF EndRun, Runs
  <2>. QED
    BY <1>3, <2>1 DEF EndRun, PublishedOK, TypeOK
<1>. QED
  BY <1>1, <1>2, <1>3 DEF RunSteps

(* So does what the operator and mishaps do to it                          *)
LEMMA OperatorStepTyped ==
    ASSUME TypeOK,
           \/ \E include \in BOOLEAN : PlanAgain(include)
           \/ StartRun \/ Dies
           \/ \E g \in InScope : GiveUp(g)
    PROVE  PublishedOK'
<1>. PICK D \in SUBSET Units : run \in Runs(D)
  BY DEF TypeOK
<1>1. ASSUME NEW include \in BOOLEAN, PlanAgain(include) PROVE PublishedOK'
  <2>1. plan' \in [units : SUBSET Units, content : Nat]
    BY <1>1 DEF PlanAgain, TypeOK
  <2>. QED
    BY <1>1, <2>1 DEF PlanAgain, published, PublishedOK, TypeOK
<1>2. CASE StartRun
  <2>. DEFINE read == IF readable THEN mapping ELSE <<>>
              todo == {u \in plan.units :
                         rule = "off" \/ (readable /\ Admits(mapping, rule, u[1]))}
  <2>1. read \in Mappings /\ todo \in SUBSET Units /\ plan.content \in Nat
    BY EmptyTyped DEF TypeOK
  <2>2. run' = [on |-> TRUE, read |-> read, content |-> plan.content, doing |-> {},
                done |-> <<>>, kept |-> {}, mem |-> saved, todo |-> todo]
    BY <1>2 DEF StartRun
  <2>3. run' \in Runs({})
    <3>. HIDE DEF read, todo
    <3>. QED
      BY <2>1, <2>2, EmptyTyped DEF Runs, TypeOK
  <2>. QED
    BY <1>2, <2>3 DEF StartRun, published, PublishedOK, TypeOK
<1>3. CASE Dies
  BY <1>3, IdleTyped DEF Dies, published, PublishedOK, TypeOK
<1>4. ASSUME NEW g \in InScope, GiveUp(g) PROVE PublishedOK'
  <2>1. run' \in Runs({})
    BY <1>4, EmptyTyped DEF GiveUp, Runs
  <2>. QED
    BY <1>4, <2>1 DEF GiveUp, published, PublishedOK, TypeOK
<1>. QED
  BY <1>1, <1>2, <1>3, <1>4

(* Acts are counted up to their bound                                      *)
LEMMA ActTyped == TypeOK /\ (Act \/ UNCHANGED acts) => acts' \in 0..MaxActs
  BY VideosAssumption DEF TypeOK, Act

(* What changes by hand, at the client and on the disk                     *)
LEMMA HandStepTyped ==
    ASSUME TypeOK,
           \/ \E e \in ByHand : HandEdit(e[1], e[2])
           \/ HandBreaks \/ HandMends \/ ProductChanges
           \/ \E products \in Exports : Parse(products)
           \/ \E f \in Files : FileSpoils(f) \/ FileMended(f)
    PROVE  TypeOK'
<1>1. ASSUME NEW e \in ByHand, HandEdit(e[1], e[2]) PROVE TypeOK'
  <2>1. e[1] \in Rows /\ e[2] \in Cells
    BY VideosAssumption
  <2>2. mapping \in [DOMAIN mapping -> Cells] /\ DOMAIN mapping \subseteq Rows
    BY DEF TypeOK, Mappings
  <2>3. mapping' \in [DOMAIN mapping \cup {e[1]} -> Cells]
    BY <1>1, <2>1, <2>2 DEF HandEdit
  <2>4. mapping' \in Mappings
    BY <2>1, <2>2, <2>3 DEF Mappings
  <2>. QED
    BY <1>1, <2>4, VideosAssumption
    DEF HandEdit, Act, TypeOK, inputs, archive, published
<1>2. CASE HandBreaks \/ HandMends
  <2>1. UNCHANGED <<mapping, inputs, archive, published, plan, run>>
    BY <1>2 DEF HandBreaks, HandMends
  <2>2. readable' \in BOOLEAN
    BY <1>2 DEF HandBreaks, HandMends
  <2>3. acts' \in 0..MaxActs
    BY <1>2, ActTyped DEF HandBreaks, HandMends
  <2>. QED
    BY <2>1, <2>2, <2>3 DEF TypeOK, inputs, archive, published
<1>3. CASE ProductChanges
  BY <1>3, VideosAssumption DEF ProductChanges, Act, TypeOK, folder, archive, published
<1>4. ASSUME NEW products \in Exports, Parse(products) PROVE TypeOK'
  <2>1. exported' \subseteq Products
    BY <1>4, VideosAssumption DEF Parse
  <2>. QED
    BY <1>4, <2>1, VideosAssumption DEF Parse, Act, TypeOK, folder, archive, published
<1>5. ASSUME NEW f \in Files, FileSpoils(f) \/ FileMended(f) PROVE TypeOK'
  BY <1>5, VideosAssumption DEF FileSpoils, FileMended, Act, TypeOK, folder, archive, published
<1>. QED
  BY <1>1, <1>2, <1>3, <1>4, <1>5, Zenon

(* The types hold at the start                                             *)
LEMMA TypesStart == Init => TypeOK
<1>. SUFFICES ASSUME Init PROVE TypeOK
  OBVIOUS
<1>1. Shut \in Panels
  BY EmptyTyped DEF Shut, Panels
<1>2. panels \in [1..MaxSheets -> Panels]
  BY <1>1 DEF Init
<1>3. <<>> \in Seq(Kept) /\ NoPage \in Shown
  BY DEF Shown
<1>4. \E D \in SUBSET Units : run \in Runs(D)
  BY IdleTyped DEF Init
<1>. QED
  BY <1>2, <1>3, <1>4, IdleTyped, VideosAssumption DEF Init, TypeOK, NoPlan

(* And every step keeps them                                               *)
LEMMA TypesStep == TypeOK /\ [Next]_vars => TypeOK'
<1>. SUFFICES ASSUME TypeOK, [Next]_vars PROVE TypeOK'
  OBVIOUS
<1>1. CASE \/ \E s \in Sheets : Upload(s)
           \/ \E n \in 1..MaxSheets : ChooseColumns(n) \/ Apply(n)
           \/ \E i \in DOMAIN sheets : SheetEdited(i)
  <2>1. WindowsOK' /\ mapping' \in Mappings
    BY <1>1, WindowsStep
  <2>2. UNCHANGED <<readable, inputs, published, plan, run>>
    BY <1>1 DEF Upload, ChooseColumns, Apply, SheetEdited, folder
  <2>3. acts' \in 0..MaxActs
    BY <1>1, ActTyped DEF Upload, ChooseColumns, Apply, SheetEdited
  <2>. QED
    BY <2>1, <2>2, <2>3 DEF WindowsOK, TypeOK, inputs, published
<1>2. CASE RunSteps
  <2>1. PublishedOK'
    BY <1>2, RunStepTyped
  <2>2. UNCHANGED <<inputs, folder, archive, acts>>
    BY <1>2 DEF RunSteps, WriteRow, Commit, EndRun
  <2>. QED
    BY <2>1, <2>2 DEF PublishedOK, TypeOK, inputs, folder, archive
<1>3. CASE \/ \E include \in BOOLEAN : PlanAgain(include)
           \/ StartRun \/ Dies
           \/ \E g \in InScope : GiveUp(g)
  <2>1. PublishedOK'
    BY <1>3, OperatorStepTyped
  <2>2. UNCHANGED <<inputs, folder, archive>>
    BY <1>3 DEF PlanAgain, StartRun, Dies, GiveUp
  <2>3. acts' \in 0..MaxActs
    BY <1>3, ActTyped DEF PlanAgain, StartRun, Dies, GiveUp
  <2>. QED
    BY <2>1, <2>2, <2>3 DEF PublishedOK, TypeOK, inputs, folder, archive
<1>4. CASE \/ \E e \in ByHand : HandEdit(e[1], e[2])
           \/ HandBreaks \/ HandMends \/ ProductChanges
           \/ \E products \in Exports : Parse(products)
           \/ \E f \in Files : FileSpoils(f) \/ FileMended(f)
  BY <1>4, HandStepTyped
<1>5. CASE UNCHANGED vars
  BY <1>5 DEF vars, TypeOK, inputs, folder, archive, published
<1>6. CASE Operator
  BY <1>1, <1>3, <1>6 DEF Operator
<1>7. CASE Others
  BY <1>1, <1>3, <1>4, <1>7, Zenon DEF Others
<1>. QED
  BY <1>2, <1>5, <1>6, <1>7 DEF Next

(* What the windows show, the plan and the run hold and the entries record *)
(* is of its type                                                          *)
THEOREM VideoTypesCorrect == Spec => []TypeOK
  BY TypesStart, TypesStep, PTL DEF Spec

(* A press of Fill in makes no product clash: neither with what the        *)
(* mapping says at that moment, nor by two lines of the sheet              *)
THEOREM FillsAddNoClash == Spec => ApplyAddsNoClash
<1>1. ASSUME TypeOK, NEW n \in 1..MaxSheets, Apply(n)
      PROVE  Clashing(mapping') \subseteq Clashing(mapping)
  <2>1. mapping' = Applied(mapping, Edits(mapping, panels[n].sheet, panels[n].exported))
    BY <1>1 DEF Apply, Fillable
  <2>2. panels[n].sheet \in Seq(Lines)
    BY <1>1 DEF TypeOK, Panels
  <2>. QED
    BY <2>1, <2>2, FillingAddsNoClash
<1>2. TypeOK => \A n \in 1..MaxSheets :
          Apply(n) => Clashing(mapping') \subseteq Clashing(mapping)
  BY <1>1
<1>. QED
  BY <1>2, VideoTypesCorrect, PTL DEF ApplyAddsNoClash
-----------------------------------------------------------------------------
(* What an entry that a run holds says of its page: the video it names, or *)
(* what the entry before it named                                          *)
Fits(e, u) ==
    IF e.failed = NoFile THEN e.video \in Files => pages[u] = e.video
    ELSE e.video = saved[u].video

(* A run touches each row once, and what it holds of a row is what the     *)
(* state file had, or fits the page it has written                         *)
RunFitsPages ==
    run.on =>
        /\ run.todo \cap (DOMAIN run.done \cup run.kept) = {}
        /\ \A u \in Units \ run.kept : run.mem[u] = saved[u]
        /\ \A u \in run.kept : Fits(run.mem[u], u)
        /\ \A u \in DOMAIN run.done : Fits(run.done[u], u)

ShowInv == TypeOK /\ RecordedVideoShows /\ RunFitsPages

(* At the start pages show what their entries record                       *)
LEMMA ShowStarts == Init => ShowInv
<1>. SUFFICES ASSUME Init PROVE ShowInv
  OBVIOUS
<1>1. RecordedVideoShows
  BY VideosAssumption DEF Init, RecordedVideoShows, NoEntry
<1>2. RunFitsPages
  BY DEF Init, RunFitsPages, Idle
<1>. QED
  BY <1>1, <1>2, TypesStart DEF ShowInv

(* A row that is written: entry and page name the same video, or the page  *)
(* keeps its own and the entry what was recorded                           *)
LEMMA RowFits ==
    ASSUME TypeOK, NEW u \in Units
    PROVE  /\ RowEntry(u).failed = NoFile =>
                  (RowEntry(u).video \in Files => RowPage(u) = RowEntry(u).video)
           /\ RowEntry(u).failed # NoFile => RowEntry(u).video = saved[u].video
<1>1. RowFile(u) \in Files \cup {NoFile} /\ NoFile \notin Files /\ NoVideo \notin Files
  BY RowTyped, VideosAssumption, VideoMapAssumption
<1>2. good \subseteq Files
  BY DEF TypeOK
<1>. QED
  BY <1>1, <1>2 DEF RowEntry, RowPage

(* A row that is written: the page runs ahead of the file                  *)
LEMMA WriteRowShows ==
    ASSUME ShowInv, NEW u \in Units, WriteRow(u)
    PROVE  RecordedVideoShows' /\ RunFitsPages'
<1>. PICK D \in SUBSET Units : run \in Runs(D)
  BY DEF ShowInv, TypeOK
<1>1. run.done \in [D -> Entries] /\ DOMAIN run.done = D /\ pages \in [Units -> Shown]
  BY DEF Runs, ShowInv, TypeOK
<1>2. /\ run.on /\ u \in run.todo /\ saved' = saved
      /\ pages' = [pages EXCEPT ![u] = RowPage(u)]
      /\ run'.on /\ run'.todo = run.todo \ {u} /\ run'.kept = run.kept /\ run'.mem = run.mem
      /\ run'.done = [x \in D \cup {u} |-> IF x = u THEN RowEntry(u) ELSE run.done[x]]
  BY <1>1 DEF WriteRow, Runs
<1>3. RecordedVideoShows'
  BY <1>1, <1>2 DEF WriteRow, RecordedVideoShows, ShowInv
<1>4. ASSUME NEW x \in Units \ {u}, NEW e, Fits(e, x) PROVE Fits(e, x)'
  BY <1>1, <1>2, <1>4 DEF Fits
<1>5. u \notin D /\ u \notin run.kept /\ run.kept \subseteq Units
  BY <1>1, <1>2 DEF ShowInv, RunFitsPages, Runs
<1>6. run'.todo \cap (DOMAIN run'.done \cup run'.kept) = {}
  BY <1>1, <1>2 DEF ShowInv, RunFitsPages
<1>7. \A x \in Units \ run'.kept : run'.mem[x] = saved'[x]
  BY <1>2 DEF ShowInv, RunFitsPages
<1>8. ASSUME NEW x \in run'.kept PROVE Fits(run.mem[x], x)'
  <2>1. Fits(run.mem[x], x)
    BY <1>2, <1>8 DEF ShowInv, RunFitsPages
  <2>2. x \in Units \ {u}
    BY <1>2, <1>5, <1>8
  <2>3. pages'[x] = pages[x] /\ run'.mem[x] = run.mem[x]
    BY <1>1, <1>2, <2>2
  <2>. QED
    BY <1>2, <2>1, <2>3 DEF Fits
<1>9. ASSUME NEW x \in DOMAIN run'.done PROVE Fits(run.done[x], x)'
  <2>1. CASE x = u
    <3>1. run'.done[u] = RowEntry(u) /\ pages'[u] = RowPage(u)
      BY <1>1, <1>2
    <3>. QED
      BY <1>2, <2>1, <3>1, RowFits DEF Fits, ShowInv
  <2>2. CASE x # u
    <3>1. x \in D /\ run'.done[x] = run.done[x]
      BY <1>2, <1>9, <2>2
    <3>2. Fits(run.done[x], x)
      BY <1>1, <1>2, <3>1 DEF ShowInv, RunFitsPages
    <3>3. pages'[x] = pages[x]
      BY <1>1, <1>2, <2>2, <3>1
    <3>. QED
      BY <1>2, <3>1, <3>2, <3>3 DEF Fits
  <2>. QED
    BY <2>1, <2>2
<1>10. RunFitsPages'
  BY <1>6, <1>7, <1>8, <1>9 DEF RunFitsPages
<1>. QED
  BY <1>3, <1>10

(* A product that is committed: memory has caught up                       *)
LEMMA CommitShows ==
    ASSUME ShowInv, NEW g \in InScope, Commit(g)
    PROVE  RecordedVideoShows' /\ RunFitsPages'
<1>. PICK D \in SUBSET Units : run \in Runs(D)
  BY DEF ShowInv, TypeOK
<1>1. run.done \in [D -> Entries] /\ DOMAIN run.done = D
  BY DEF Runs
<1>2. /\ run.on /\ saved' = saved /\ pages' = pages /\ unsure' = unsure
      /\ run'.on /\ run'.todo = run.todo /\ run'.kept = run.kept \cup D /\ DOMAIN run'.done = {}
      /\ run'.mem = [u \in Units |-> IF u \in D THEN run.done[u] ELSE run.mem[u]]
  BY <1>1, EmptyTyped DEF Commit, Runs, published
<1>3. RecordedVideoShows'
  BY <1>2 DEF RecordedVideoShows, ShowInv
<1>4. run'.todo \cap (DOMAIN run'.done \cup run'.kept) = {}
  BY <1>1, <1>2 DEF ShowInv, RunFitsPages
<1>5. \A x \in Units \ run'.kept : run'.mem[x] = saved'[x]
  BY <1>2 DEF ShowInv, RunFitsPages
<1>6. ASSUME NEW x \in run'.kept PROVE Fits(run.mem[x], x)'
  <2>1. x \in Units /\ x \in run.kept \cup D
    BY <1>2, <1>6 DEF Runs
  <2>2. Fits(run'.mem[x], x)
    <3>1. CASE x \in D
      BY <1>1, <1>2, <2>1, <3>1 DEF ShowInv, RunFitsPages
    <3>2. CASE x \notin D
      BY <1>2, <2>1, <3>2 DEF ShowInv, RunFitsPages
    <3>. QED
      BY <3>1, <3>2
  <2>. QED
    BY <1>2, <2>2 DEF Fits
<1>7. RunFitsPages'
  BY <1>2, <1>4, <1>5, <1>6 DEF RunFitsPages
<1>. QED
  BY <1>3, <1>7

(* A run that ends: the file has caught up                                 *)
LEMMA EndRunShows ==
    ASSUME ShowInv, EndRun
    PROVE  RecordedVideoShows' /\ RunFitsPages'
<1>1. /\ run.on /\ saved' = run.mem /\ pages' = pages /\ ~run'.on
      /\ unsure' = unsure \ {u \in run.kept : run.mem[u].failed = NoFile}
  BY DEF EndRun, Idle
<1>2. ASSUME NEW u \in Units \ unsure', saved'[u].video \in Files
      PROVE  pages'[u] = saved'[u].video
  <2>1. CASE u \in run.kept /\ run.mem[u].failed = NoFile
    BY <1>1, <1>2, <2>1 DEF ShowInv, RunFitsPages, Fits
  <2>2. CASE ~ (u \in run.kept /\ run.mem[u].failed = NoFile)
    <3>1. u \notin unsure
      BY <1>1, <1>2, <2>2
    <3>2. run.mem[u].video = saved[u].video
      BY <1>1, <1>2, <2>2 DEF ShowInv, RunFitsPages, Fits
    <3>. QED
      BY <1>1, <1>2, <3>1, <3>2 DEF ShowInv, RecordedVideoShows
  <2>. QED
    BY <2>1, <2>2
<1>. QED
  BY <1>1, <1>2 DEF RecordedVideoShows, RunFitsPages

(* Every step keeps the invariant                                          *)
LEMMA ShowSteps == ShowInv /\ [Next]_vars => ShowInv'
<1>. SUFFICES ASSUME ShowInv, [Next]_vars PROVE ShowInv'
  OBVIOUS
<1>1. TypeOK'
  BY TypesStep DEF ShowInv
<1>2. CASE RunSteps
  BY <1>1, <1>2, WriteRowShows, CommitShows, EndRunShows DEF RunSteps, ShowInv
<1>3. CASE UNCHANGED <<saved, pages, unsure, run>>
  BY <1>1, <1>3 DEF ShowInv, RecordedVideoShows, RunFitsPages, Fits
<1>4. CASE StartRun
  BY <1>1, <1>4, EmptyTyped
  DEF StartRun, published, ShowInv, RecordedVideoShows, RunFitsPages, Fits
<1>5. CASE Dies
  BY <1>1, <1>5 DEF Dies, Idle, published, ShowInv, RecordedVideoShows, RunFitsPages
<1>6. ASSUME NEW g \in InScope, GiveUp(g) PROVE ShowInv'
  <2>. PICK D \in SUBSET Units : run \in Runs(D)
    BY DEF ShowInv, TypeOK
  <2>1. /\ run.on /\ saved' = saved /\ pages' = pages /\ unsure' = unsure
        /\ run'.todo \subseteq run.todo /\ run'.kept = run.kept /\ run'.mem = run.mem
        /\ DOMAIN run'.done = {}
    BY <1>6, EmptyTyped DEF GiveUp, published, Runs
  <2>. QED
    BY <1>1, <2>1 DEF ShowInv, RecordedVideoShows, RunFitsPages, Fits
<1>7. ASSUME NEW include \in BOOLEAN, PlanAgain(include) PROVE ShowInv'
  BY <1>3, <1>7 DEF PlanAgain, published
<1>8. CASE \E n \in 1..MaxSheets : ChooseColumns(n) \/ Apply(n)
  BY <1>3, <1>8 DEF ChooseColumns, Apply, published
<1>9. CASE Operator
  BY <1>4, <1>7, <1>8, <1>9 DEF Operator
<1>10. CASE \/ \E e \in ByHand : HandEdit(e[1], e[2])
            \/ HandBreaks \/ HandMends \/ ProductChanges
            \/ \E products \in Exports : Parse(products)
            \/ \E f \in Files : FileSpoils(f) \/ FileMended(f)
            \/ \E s \in Sheets : Upload(s)
            \/ \E i \in DOMAIN sheets : SheetEdited(i)
  BY <1>3, <1>10 DEF HandEdit, HandBreaks, HandMends, ProductChanges, Parse, FileSpoils,
                     FileMended, Upload, SheetEdited, published
<1>11. CASE Others
  BY <1>5, <1>6, <1>10, <1>11, Zenon DEF Others
<1>12. CASE UNCHANGED vars
  BY <1>3, <1>12 DEF vars, published
<1>. QED
  BY <1>2, <1>9, <1>11, <1>12 DEF Next

(* A page shows the video its entry records, whatever is edited, spoilt,   *)
(* given up or killed in between, unless a run changed it since and kept   *)
(* no entry that names what it put there                                   *)
THEOREM VideosShowAsRecorded == Spec => []RecordedVideoShows
<1>1. ShowInv => RecordedVideoShows
  BY DEF ShowInv
<1>. QED
  BY <1>1, ShowStarts, ShowSteps, PTL DEF Spec

-----------------------------------------------------------------------------
(* A press fills all that can be filled: nothing of the sheet is left, and *)
(* what was to be filled agrees with the mapping                           *)
LEMMA FillingSettles ==
    ASSUME NEW m, NEW s \in Seq(Lines), NEW x, OneAnswerEach(m, s, x)
    PROVE  /\ DOMAIN Edits(Applied(m, Edits(m, s, x)), s, x) = {}
           /\ Fills(m, s, x) \subseteq Unchanged(Applied(m, Edits(m, s, x)), s, x)
<1>. DEFINE e == Edits(m, s, x)
            after == Applied(m, e)
<1>1. DOMAIN after = DOMAIN m /\ Answered(after, s, x) = Answered(m, s, x)
  BY DEF Applied, Answered, Addressed
<1>2. Fills(m, s, x) \subseteq Filling(m, s, x) /\ Filling(m, s, x) \subseteq Answered(m, s, x)
  BY DEF Fills, Filling
<1>3. ASSUME NEW i \in Fills(m, s, x) PROVE Row(s, i) \in DOMAIN e
  BY DEF Edits
<1>4. ASSUME NEW r \in DOMAIN e
      PROVE  /\ r \in DOMAIN m /\ after[r] = e[r]
             /\ \E k \in Fills(m, s, x) : Row(s, k) = r /\ e[r] = s[k].given
  <2>1. r \in DOMAIN m
    BY <1>4, FillsAreUnset
  <2>2. \E k \in Fills(m, s, x) : Row(s, k) = r /\ e[r] = s[k].given
    BY <1>4, FillsComeFromLines
  <2>. HIDE DEF e
  <2>. QED
    BY <2>1, <2>2, <1>4 DEF Applied
<1>5. ASSUME NEW i \in Fills(m, s, x) PROVE after[Row(s, i)] = s[i].given
  <2>. HIDE DEF e, after
  <2>1. PICK k \in Fills(m, s, x) :
            Row(s, k) = Row(s, i) /\ after[Row(s, i)] = s[k].given
    BY <1>3, <1>4
  <2>. QED
    BY <1>2, <2>1 DEF OneAnswerEach
<1>6. Fills(m, s, x) \subseteq Unchanged(after, s, x)
  <2>. HIDE DEF e, after
  <2>. QED
    BY <1>1, <1>2, <1>5 DEF Unchanged
<1>7. ASSUME NEW r \in DOMAIN m, r \notin DOMAIN e PROVE after[r] = m[r]
  <2>. HIDE DEF e
  <2>. QED
    BY <1>7 DEF Applied
<1>8. ASSUME NEW i \in Filling(after, s, x) PROVE i \in Ambiguous(m, s, x)
  <2>. HIDE DEF e, after
  <2>1. i \in Answered(m, s, x) /\ Row(s, i) \in DOMAIN m /\ after[Row(s, i)] = Unset
    BY <1>1 DEF Filling, Answered, Addressed
  <2>2. i \notin Fills(m, s, x)
    <3>1. s[i].given # Unset
      BY <2>1, VideoMapAssumption DEF Answered
    <3>. QED
      BY <1>5, <2>1, <3>1
  <2>3. Row(s, i) \notin DOMAIN e
    <3>. SUFFICES ASSUME Row(s, i) \in DOMAIN e PROVE FALSE
      OBVIOUS
    <3>1. PICK k \in Fills(m, s, x) : after[Row(s, i)] = s[k].given
      BY <1>4
    <3>2. s[k].given # Unset
      BY <1>2, VideoMapAssumption DEF Answered
    <3>. QED
      BY <2>1, <3>1, <3>2
  <2>4. i \in Filling(m, s, x)
    BY <1>7, <2>1, <2>3 DEF Filling
  <2>. QED
    BY <2>2, <2>4 DEF Fills
<1>9. ASSUME NEW i \in Filling(after, s, x) PROVE i \in Ambiguous(after, s, x)
  <2>. HIDE DEF e, after
  <2>1. i \in Ambiguous(m, s, x)
    BY <1>8
  <2>2. i \in Filling(m, s, x) /\ s[i].given # Skip /\ s[i].given # Unset
    BY <1>2, <2>1, VideoMapAssumption DEF Ambiguous, Filling, Answered
  <2>3. ASSUME NEW f \in Claimed(m, s[i].given, s[i].language), f # s[i].file
        PROVE  i \in Ambiguous(after, s, x)
    <3>1. f \in Files /\ <<s[i].language, f>> \in DOMAIN m
          /\ m[<<s[i].language, f>>] = s[i].given
      BY <2>3 DEF Claimed
    <3>2. <<s[i].language, f>> \notin DOMAIN e
      BY <2>2, <3>1, FillsAreUnset DEF e
    <3>3. f \in Claimed(after, s[i].given, s[i].language)
      BY <1>1, <1>7, <3>1, <3>2 DEF Claimed
    <3>. QED
      BY <2>2, <2>3, <3>3, <1>9 DEF Ambiguous
  <2>4. ASSUME NEW j \in Filling(m, s, x), s[j].given = s[i].given,
               s[j].language = s[i].language, s[j].file # s[i].file
        PROVE  i \in Ambiguous(after, s, x)
    <3>1. Row(s, j) \notin DOMAIN e
      <4>. SUFFICES ASSUME Row(s, j) \in DOMAIN e PROVE FALSE
        OBVIOUS
      <4>1. PICK k \in Fills(m, s, x) : Row(s, k) = Row(s, j)
        BY <1>4
      <4>2. s[k].given = s[j].given
        BY <1>2, <4>1 DEF OneAnswerEach
      <4>3. s[k].language = s[j].language /\ s[k].file = s[j].file
        BY <4>1 DEF Row
      <4>4. k \in Ambiguous(m, s, x)
        BY <1>2, <2>2, <2>4, <4>2, <4>3 DEF Ambiguous
      <4>. QED
        BY <4>4 DEF Fills
    <3>2. j \in Filling(after, s, x)
      BY <1>1, <1>7, <2>4, <3>1 DEF Filling, Answered, Addressed
    <3>. QED
      BY <2>2, <2>4, <3>2, <1>9 DEF Ambiguous
  <2>. QED
    BY <2>1, <2>3, <2>4 DEF Ambiguous
<1>10. Fills(after, s, x) = {}
  <2>. HIDE DEF e, after
  <2>. QED
    BY <1>9 DEF Fills
<1>11. DOMAIN Edits(after, s, x) = {}
  <2>. HIDE DEF e, after
  <2>. QED
    BY <1>10 DEF Edits
<1>. QED
  BY <1>6, <1>11

(* What the windows and the folder have of a sheet is the same             *)
ArchiveMatches ==
    \A i \in DOMAIN sheets :
        /\ sheets[i].number <= Len(sheets)
        /\ panels[sheets[i].number].sheet = sheets[i].sheet

(* Drawing a window leaves its sheet, and the other windows                *)
LEMMA DrawKeepsSheets ==
    ASSUME TypeOK, NEW n \in 1..MaxSheets, NEW panel \in Panels, NEW m, Draw(n, panel, m)
    PROVE  \A k \in 1..MaxSheets :
              panels'[k].sheet = IF k = n THEN panel.sheet ELSE panels[k].sheet
<1>. DEFINE fills == IF readable THEN Edits(m, panel.sheet, panel.exported) ELSE <<>>
            drawn == [panel EXCEPT !.drawn = readable, !.fills = fills]
<1>1. drawn.sheet = panel.sheet
  <2>. HIDE DEF fills
  <2>. QED
    BY DEF Panels
<1>2. panels' = [panels EXCEPT ![n] = drawn]
  BY DEF Draw
<1>. HIDE DEF drawn
<1>. QED
  BY <1>1, <1>2 DEF TypeOK

(* Every step keeps windows and folder the same                            *)
LEMMA ArchiveSteps == TypeOK /\ ArchiveMatches /\ [Next]_vars => ArchiveMatches'
<1>. SUFFICES ASSUME TypeOK, ArchiveMatches, [Next]_vars PROVE ArchiveMatches'
  OBVIOUS
<1>. USE DEF ArchiveMatches
<1>1. /\ Len(sheets) \in Nat /\ DOMAIN sheets = 1..Len(sheets) /\ MaxSheets \in Nat
      /\ \A i \in DOMAIN sheets : sheets[i] \in Kept
  BY VideosAssumption DEF TypeOK
<1>2. CASE UNCHANGED <<sheets, panels>>
  BY <1>2
<1>3. ASSUME NEW s \in Sheets, Upload(s) PROVE ArchiveMatches'
  <2>. DEFINE panel == [open |-> TRUE, sheet |-> s, exported |-> exported,
                        drawn |-> FALSE, fills |-> <<>>]
  <2>1. panel \in Panels /\ panel.sheet = s
    BY EmptyTyped, VideosAssumption DEF Panels, TypeOK
  <2>2. PICK n \in 1..MaxSheets :
            /\ n = Len(sheets) + 1
            /\ sheets' = Append(sheets, [number |-> n, sheet |-> s, moved |-> FALSE])
            /\ \/ Draw(n, panel, mapping)
               \/ panels' = [panels EXCEPT ![n] = panel] /\ UNCHANGED note
    BY <1>3 DEF Upload
  <2>3. \A k \in 1..MaxSheets :
            panels'[k].sheet = IF k = n THEN s ELSE panels[k].sheet
    <3>1. CASE Draw(n, panel, mapping)
      <4>. HIDE DEF panel
      <4>. QED
        BY <2>1, <3>1, DrawKeepsSheets
    <3>2. CASE panels' = [panels EXCEPT ![n] = panel]
      <4>. HIDE DEF panel
      <4>. QED
        BY <2>1, <3>2 DEF TypeOK
    <3>. QED
      BY <2>2, <3>1, <3>2
  <2>4. Len(sheets') = n /\ DOMAIN sheets' = 1..n
    BY <1>1, <2>2 DEF TypeOK
  <2>5. ASSUME NEW i \in 1..n
        PROVE  sheets'[i] = IF i = n THEN [number |-> n, sheet |-> s, moved |-> FALSE]
                            ELSE sheets[i]
    BY <1>1, <2>2, <2>5 DEF TypeOK
  <2>6. ASSUME NEW i \in 1..n
        PROVE  sheets'[i].number <= n /\ panels'[sheets'[i].number].sheet = sheets'[i].sheet
    <3>1. CASE i = n
      BY <2>2, <2>3, <2>5, <3>1, <1>1
    <3>2. CASE i # n
      <4>1. i \in DOMAIN sheets /\ sheets'[i] = sheets[i]
        BY <1>1, <2>2, <2>5, <3>2
      <4>2. sheets[i].number \in 1..MaxSheets /\ sheets[i].number <= Len(sheets)
        BY <1>1, <4>1 DEF Kept
      <4>3. sheets[i].number # n /\ sheets[i].number <= n
        BY <1>1, <2>2, <4>2
      <4>. QED
        BY <2>3, <4>1, <4>2, <4>3
    <3>. QED
      BY <3>1, <3>2
  <2>. QED
    BY <2>4, <2>6
<1>4. ASSUME NEW n \in 1..MaxSheets, ChooseColumns(n) \/ Apply(n) PROVE ArchiveMatches'
  <2>1. panels[n] \in Panels /\ sheets' = sheets
    BY <1>4 DEF ChooseColumns, Apply, TypeOK
  <2>2. \A k \in 1..MaxSheets : panels'[k].sheet = panels[k].sheet
    BY <1>4, <2>1, DrawKeepsSheets DEF ChooseColumns, Apply
  <2>. QED
    BY <1>1, <2>1, <2>2 DEF Kept
<1>5. ASSUME NEW i \in DOMAIN sheets, SheetEdited(i) PROVE ArchiveMatches'
  <2>. DEFINE front == SubSeq(sheets, 1, i - 1)
              back == SubSeq(sheets, i + 1, Len(sheets))
              moved == [sheets[i] EXCEPT !.moved = TRUE]
  <2>1. i \in 1..Len(sheets) /\ sheets[i] \in Kept
    BY <1>1
  <2>2. /\ front \in Seq(Kept) /\ Len(front) = i - 1
        /\ \A k \in 1..(i - 1) : front[k] = sheets[k]
    BY <1>1, <2>1, SubSeqProperties DEF TypeOK
  <2>3. /\ back \in Seq(Kept) /\ Len(back) = Len(sheets) - i
        /\ \A k \in 1..(Len(sheets) - i) : back[k] = sheets[i + k]
    BY <1>1, <2>1, SubSeqProperties DEF TypeOK
  <2>4. moved.number = sheets[i].number /\ moved.sheet = sheets[i].sheet /\ moved \in Kept
    BY <2>1 DEF Kept
  <2>5. sheets' = Append(front \o back, moved) /\ panels' = panels
    BY <1>5 DEF SheetEdited
  <2>. HIDE DEF front, back, moved
  <2>6. /\ front \o back \in Seq(Kept) /\ Len(front \o back) = Len(sheets) - 1
        /\ \A k \in 1..(Len(sheets) - 1) :
              (front \o back)[k] = IF k <= i - 1 THEN sheets[k] ELSE sheets[k + 1]
    <3>1. /\ front \o back \in Seq(Kept) /\ Len(front \o back) = Len(front) + Len(back)
          /\ \A k \in 1..(Len(front) + Len(back)) :
                (front \o back)[k] = IF k <= Len(front) THEN front[k] ELSE back[k - Len(front)]
      BY <2>2, <2>3, ConcatProperties
    <3>2. ASSUME NEW k \in 1..(Len(sheets) - 1), k > i - 1
          PROVE  back[k - (i - 1)] = sheets[k + 1]
      <4>1. k - (i - 1) \in 1..(Len(sheets) - i) /\ i + (k - (i - 1)) = k + 1
        BY <1>1, <2>1, <3>2
      <4>. QED
        BY <2>3, <4>1
    <3>. QED
      BY <1>1, <2>1, <2>2, <2>3, <3>1, <3>2
  <2>7. /\ Len(sheets') = Len(sheets)
        /\ \A k \in 1..Len(sheets) :
              sheets'[k] = IF k = Len(sheets) THEN moved ELSE (front \o back)[k]
    <3>. DEFINE both == front \o back
    <3>1. both \in Seq(Kept) /\ Len(both) = Len(sheets) - 1
      BY <2>6
    <3>2. Len(sheets') = Len(both) + 1 /\ sheets'[Len(both) + 1] = moved
      <4>. HIDE DEF both
      <4>1. sheets' = Append(both, moved)
        BY <2>5 DEF both
      <4>. QED
        BY <2>4, <3>1, <4>1, AppendProperties
    <3>3. ASSUME NEW k \in 1..Len(both) PROVE sheets'[k] = both[k]
      <4>. HIDE DEF both
      <4>1. sheets' = Append(both, moved)
        BY <2>5 DEF both
      <4>. QED
        BY <2>4, <3>1, <3>3, <4>1, AppendProperties
    <3>4. ASSUME NEW k \in 1..Len(sheets), k # Len(sheets) PROVE k \in 1..Len(both)
      <4>1. Len(both) = Len(sheets) - 1 /\ Len(sheets) \in Nat
        BY <1>1, <3>1
      <4>. HIDE DEF both
      <4>. QED
        BY <3>4, <4>1
    <3>5. Len(both) + 1 = Len(sheets)
      BY <1>1, <3>1
    <3>. QED
      BY <3>2, <3>3, <3>4, <3>5
  <2>8. ASSUME NEW k \in 1..Len(sheets)
        PROVE  \E j \in DOMAIN sheets :
                  sheets'[k].number = sheets[j].number /\ sheets'[k].sheet = sheets[j].sheet
    <3>1. CASE k = Len(sheets)
      BY <2>1, <2>4, <2>7, <3>1
    <3>2. CASE k # Len(sheets)
      <4>1. k \in 1..(Len(sheets) - 1) /\ k \in DOMAIN sheets /\ k + 1 \in DOMAIN sheets
        <5>. DEFINE N == Len(sheets)
        <5>1. N \in Nat /\ DOMAIN sheets = 1..N /\ k \in 1..N /\ k # N
          BY <1>1, <3>2
        <5>. HIDE DEF N
        <5>2. k \in 1..(N - 1) /\ k + 1 \in 1..N
          BY <5>1
        <5>. QED
          BY <5>1, <5>2 DEF N
      <4>2. sheets'[k] = (front \o back)[k]
        BY <2>7, <3>2
      <4>3. sheets'[k] = sheets[k] \/ sheets'[k] = sheets[k + 1]
        BY <2>6, <4>1, <4>2
      <4>. QED
        BY <4>1, <4>3
    <3>. QED
      BY <3>1, <3>2
  <2>9. DOMAIN sheets' = 1..Len(sheets)
    <3>1. sheets' \in Seq(Kept)
      BY <2>4, <2>5, <2>6, AppendProperties
    <3>. QED
      BY <2>7, <3>1
  <2>10. ASSUME NEW k \in DOMAIN sheets'
         PROVE  /\ sheets'[k].number <= Len(sheets')
                /\ panels'[sheets'[k].number].sheet = sheets'[k].sheet
    <3>1. PICK j \in DOMAIN sheets :
              sheets'[k].number = sheets[j].number /\ sheets'[k].sheet = sheets[j].sheet
      BY <2>8, <2>9
    <3>. QED
      BY <2>5, <2>7, <3>1
  <2>. QED
    BY <2>10
<1>6. CASE Operator
  BY <1>2, <1>4, <1>6 DEF Operator, PlanAgain, StartRun, archive
<1>7. CASE RunSteps
  BY <1>2, <1>7 DEF RunSteps, WriteRow, Commit, EndRun, archive
<1>8. CASE \/ \E e \in ByHand : HandEdit(e[1], e[2])
           \/ HandBreaks \/ HandMends \/ ProductChanges
           \/ \E products \in Exports : Parse(products)
           \/ \E f \in Files : FileSpoils(f) \/ FileMended(f)
           \/ \E g \in InScope : GiveUp(g)
           \/ Dies
  BY <1>2, <1>8 DEF HandEdit, HandBreaks, HandMends, ProductChanges, Parse, FileSpoils,
                    FileMended, GiveUp, Dies, archive
<1>9. CASE Others
  BY <1>3, <1>5, <1>8, <1>9, Zenon DEF Others
<1>10. CASE UNCHANGED vars
  BY <1>2, <1>10 DEF vars, archive
<1>. QED
  BY <1>6, <1>7, <1>9, <1>10 DEF Next

(* A press fills all it can of its sheet: the report, which reads sheet    *)
(* and mapping for itself, has nothing of it left to fill in, and finds    *)
(* what was to be filled in the mapping, for every sheet that answers once *)
(* for a row, whatever other sheets came and were edited in between        *)
(* (scripts/report_quality.py, _signoff_review; ui/video_signoff_panel.py) *)
THEOREM PressesSettle == Spec => PressSettles
<1>. DEFINE Settled(n, x) ==
         /\ DOMAIN Edits(mapping', x.sheet, exported) = {}
         /\ Fills(mapping, x.sheet, exported) \subseteq Unchanged(mapping', x.sheet, exported)
<1>1. Init => ArchiveMatches
  BY DEF Init, ArchiveMatches
<1>2. ASSUME TypeOK, ArchiveMatches, ArchiveMatches', NEW n \in 1..MaxSheets, Apply(n),
             NEW x \in Replanned', x.number = n, panels[n].exported = exported,
             OneAnswerEach(mapping, x.sheet, exported)
      PROVE  Settled(n, x)
  <2>1. x \in {sheets[i] : i \in DOMAIN sheets}
    BY <1>2 DEF Replanned, Newest, Apply
  <2>2. x.sheet = panels[n].sheet
    BY <1>2, <2>1 DEF ArchiveMatches
  <2>3. panels[n].sheet \in Seq(Lines)
    BY <1>2 DEF TypeOK, Panels
  <2>4. mapping' = Applied(mapping, Edits(mapping, x.sheet, exported))
    BY <1>2, <2>2 DEF Apply, Fillable
  <2>. QED
    BY <1>2, <2>2, <2>3, <2>4, FillingSettles
<1>3. TypeOK /\ ArchiveMatches /\ ArchiveMatches' =>
        \A n \in 1..MaxSheets : Apply(n) =>
          \A x \in Replanned' :
             x.number = n /\ panels[n].exported = exported
               /\ OneAnswerEach(mapping, x.sheet, exported) => Settled(n, x)
  <2>. HIDE DEF Settled
  <2>. QED
    BY <1>2
<1>. QED
  BY <1>1, <1>3, VideoTypesCorrect, ArchiveSteps, PTL DEF Spec, PressSettles

(* A press of Fill in changes nothing signed off, makes nothing clash, and *)
(* leaves nothing to fill                                                  *)
THEOREM PressesOnlyAdd == Spec => FillsOnlyAdd
  BY SignOffIsKept, FillsAddNoClash, PressesSettle DEF FillsOnlyAdd

-----------------------------------------------------------------------------
(* What a run has still to write is admitted by the mapping it read when   *)
(* it started, though the file may say something else by now               *)
TodoIsAdmitted == run.on => \A u \in run.todo : Admits(run.read, rule, u[1])

(* No step makes a run write what its mapping does not admit               *)
LEMMA TodoStays == TypeOK /\ TodoIsAdmitted /\ [Next]_vars => TodoIsAdmitted'
<1>. SUFFICES ASSUME TypeOK, TodoIsAdmitted, [Next]_vars PROVE TodoIsAdmitted'
  OBVIOUS
<1>1. UNCHANGED rule
  BY Zenon DEF Next, Operator, RunSteps, Others, ChooseColumns, Apply, PlanAgain, StartRun, WriteRow,
     Commit, EndRun, HandEdit, HandBreaks, HandMends, ProductChanges, Parse, FileSpoils,
     FileMended, Upload, SheetEdited, GiveUp, Dies, inputs, vars
<1>2. CASE UNCHANGED run
  BY <1>1, <1>2 DEF TodoIsAdmitted
<1>3. CASE StartRun
  <2>1. ASSUME NEW u \in run'.todo PROVE Admits(run'.read, rule, u[1])
    BY <1>3, <2>1 DEF StartRun, Admits
  <2>. QED
    BY <1>1, <2>1 DEF TodoIsAdmitted
<1>4. CASE RunSteps \/ Dies \/ \E g \in InScope : GiveUp(g)
  <2>1. \/ ~run'.on
        \/ run.on /\ run'.read = run.read /\ run'.todo \subseteq run.todo
    <3>. PICK D \in SUBSET Units : run \in Runs(D)
      BY DEF TypeOK
    <3>1. ASSUME NEW u \in Units, WriteRow(u)
          PROVE  run.on /\ run'.read = run.read /\ run'.todo \subseteq run.todo
      BY <3>1 DEF WriteRow, Runs
    <3>2. ASSUME NEW g \in InScope, Commit(g) \/ GiveUp(g)
          PROVE  run.on /\ run'.read = run.read /\ run'.todo \subseteq run.todo
      BY <3>2 DEF Commit, GiveUp, Runs
    <3>3. EndRun \/ Dies => ~run'.on
      BY DEF EndRun, Dies, Idle
    <3>. QED
      BY <1>4, <3>1, <3>2, <3>3 DEF RunSteps
  <2>. QED
    BY <1>1, <2>1 DEF TodoIsAdmitted
<1>5. CASE Operator /\ ~StartRun
  BY <1>2, <1>5 DEF Operator, ChooseColumns, Apply, PlanAgain
<1>6. CASE \/ \E e \in ByHand : HandEdit(e[1], e[2])
           \/ HandBreaks \/ HandMends \/ ProductChanges
           \/ \E products \in Exports : Parse(products)
           \/ \E f \in Files : FileSpoils(f) \/ FileMended(f)
           \/ \E s \in Sheets : Upload(s)
           \/ \E i \in DOMAIN sheets : SheetEdited(i)
  BY <1>2, <1>6 DEF HandEdit, HandBreaks, HandMends, ProductChanges, Parse, FileSpoils,
                    FileMended, Upload, SheetEdited
<1>7. CASE Others
  BY <1>4, <1>6, <1>7, Zenon DEF Others
<1>8. CASE UNCHANGED vars
  BY <1>2, <1>8 DEF vars
<1>. QED
  BY <1>3, <1>4, <1>5, <1>7, <1>8 DEF Next

(* A page that first appears is one a row of a run writes                  *)
LEMMA RunsWritePages ==
    ASSUME [Next]_vars
    PROVE  UNCHANGED pages \/ \E u \in Units : WriteRow(u)
<1>1. CASE RunSteps
  BY <1>1 DEF RunSteps, Commit, EndRun, published
<1>2. CASE Operator
  BY <1>2 DEF Operator, ChooseColumns, Apply, PlanAgain, StartRun, published
<1>3. CASE Others
  BY <1>3, Zenon DEF Others, HandEdit, HandBreaks, HandMends, ProductChanges, Parse, FileSpoils,
     FileMended, Upload, SheetEdited, GiveUp, Dies, published
<1>4. CASE UNCHANGED vars
  BY <1>4 DEF vars, published
<1>. QED
  BY <1>1, <1>2, <1>3, <1>4 DEF Next

(* Under the strict rule no page goes live without a video, unless the     *)
(* mapping changed under the run or the file does not prepare (lib/        *)
(* media_video.py, fully_mapped_gtins; run_execute, _restrict_to_pilot):   *)
(* for every mapping, batch and failure.                                   *)
THEOREM StrictPagesAreNotBare == Spec => StrictPagesCarryVideo
<1>. DEFINE Step ==
         \A u \in Units :
             (pages[u] = NoPage /\ pages'[u] = NoVideo) =>
                 rule # "strict" \/ ~readable \/ run.read # mapping
                     \/ Resolve(mapping, u[1], u[2]) \in Files \ good
<1>1. Init => TodoIsAdmitted
  BY DEF Init, TodoIsAdmitted, Idle
<1>2. ASSUME TypeOK, TodoIsAdmitted, [Next]_vars PROVE [Step]_vars
  <2>1. ASSUME NEW u \in Units, pages[u] = NoPage, pages'[u] = NoVideo,
               rule = "strict", readable, run.read = mapping
        PROVE  Resolve(mapping, u[1], u[2]) \in Files \ good
    <3>1. NoPage # NoVideo
      BY DEF NoPage, NoVideo
    <3>2. PICK w \in Units : WriteRow(w)
      BY <1>2, <2>1, <3>1, RunsWritePages
    <3>3. w = u /\ run.on /\ u \in run.todo /\ pages'[u] = RowPage(u)
      BY <1>2, <2>1, <3>1, <3>2 DEF WriteRow, TypeOK
    <3>4. u[1] \in FullyMapped(mapping) /\ u[2] \in Languages
      BY <1>2, <2>1, <3>3 DEF TodoIsAdmitted, Admits, Units
    <3>5. Resolve(mapping, u[1], u[2]) \in Files
      BY <3>4, ResolveOne, ResolveTyped DEF FullyMapped
    <3>6. NoVideo \notin good
      BY <1>2, VideosAssumption DEF TypeOK
    <3>. QED
      BY <2>1, <3>3, <3>5, <3>6 DEF RowPage, RowFile
  <2>. QED
    BY <2>1
<1>. QED
  BY <1>1, <1>2, VideoTypesCorrect, TodoStays, PTL DEF Spec, StrictPagesCarryVideo

(* What a run publishes is what the doctor and the report said it would of *)
(* the mapping the run read: nothing that either holds, all that both let  *)
(* through, and bare only what both name, for every mapping and rule,      *)
(* whatever is edited between plan and run and under the run (with the     *)
(* rule off, the doctor's word alone)                                      *)
THEOREM RunsFollowTheReport == Spec => HeldMeansUnpublished
<1>. DEFINE Published == \A u \in Units : pages'[u] # pages[u] => u[1] \notin Held(run.read)
            LeftOut ==
                StartRun /\ readable =>
                    \A u \in plan.units \ run'.todo :
                       u[1] \in HeldForVideo(mapping, rule) \cap ReportedHeld(mapping, rule)
            Without ==
                \A u \in Units : pages[u] = NoPage /\ pages'[u] = NoVideo /\ rule = "bare" =>
                    \/ u[1] \in SaidBare(run.read)
                    \/ RowFile(u) \in Files \ good
                    \/ ~readable \/ run.read # mapping
<1>1. Init => TodoIsAdmitted
  BY DEF Init, TodoIsAdmitted, Idle
<1>2. ASSUME TypeOK, TodoIsAdmitted, [Next]_vars, NEW u \in Units, pages'[u] # pages[u]
      PROVE  Admits(run.read, rule, u[1]) /\ pages'[u] = RowPage(u)
  <2>1. PICK w \in Units : WriteRow(w)
    BY <1>2, RunsWritePages
  <2>2. w = u /\ run.on /\ u \in run.todo /\ pages'[u] = RowPage(u)
    BY <1>2, <2>1 DEF WriteRow, TypeOK
  <2>. QED
    BY <1>2, <2>2 DEF TodoIsAdmitted
<1>3. ASSUME TypeOK, TodoIsAdmitted, [Next]_vars PROVE Published
  <2>1. ASSUME NEW u \in Units, pages'[u] # pages[u] PROVE u[1] \notin Held(run.read)
    <3>1. u[1] \notin HeldForVideo(run.read, rule)
      BY <1>2, <1>3, <2>1 DEF HeldForVideo
    <3>. QED
      BY <3>1, ReportsFollowTheGate DEF Held
  <2>. QED
    BY <2>1
<1>4. ASSUME TypeOK PROVE LeftOut
  <2>1. ASSUME StartRun, readable, NEW u \in plan.units \ run'.todo
        PROVE  u[1] \in HeldForVideo(mapping, rule) \cap ReportedHeld(mapping, rule)
    <3>1. u[1] \in Products
      BY <1>4, <2>1, VideosAssumption DEF TypeOK, Units
    <3>2. rule # "off" /\ ~Admits(mapping, rule, u[1])
      BY <2>1 DEF StartRun
    <3>. QED
      BY <3>1, <3>2, ReportsFollowTheGate DEF HeldForVideo
  <2>. QED
    BY <2>1
<1>5. ASSUME TypeOK, TodoIsAdmitted, [Next]_vars PROVE Without
  <2>1. ASSUME NEW u \in Units, pages[u] = NoPage, pages'[u] = NoVideo, rule = "bare",
               readable, run.read = mapping, RowFile(u) \notin Files \ good
        PROVE  u[1] \in SaidBare(run.read)
    <3>1. NoPage # NoVideo /\ NoVideo \notin good
      BY <1>5, VideosAssumption DEF TypeOK, NoPage, NoVideo
    <3>2. Admits(mapping, rule, u[1]) /\ pages'[u] = RowPage(u)
      BY <1>2, <1>5, <2>1, <3>1
    <3>3. RowFile(u) \notin good
      BY <2>1, <3>1, <3>2 DEF RowPage
    <3>4. Resolve(mapping, u[1], u[2]) = NoFile
      BY <2>1, <3>3, ResolveTyped DEF RowFile
    <3>5. u[1] \in Products /\ u[2] \in Languages
      BY VideosAssumption DEF Units
    <3>6. u[1] \notin FullyMapped(mapping)
      BY <3>4, <3>5, ResolveOne DEF FullyMapped
    <3>7. u[1] \in Bare(mapping, rule)
      BY <2>1, <3>2, <3>5, <3>6 DEF Bare
    <3>. QED
      BY <2>1, <3>7, ReportsFollowTheGate DEF SaidBare
  <2>. QED
    BY <2>1
<1>6. TypeOK /\ TodoIsAdmitted /\ [Next]_vars => Published /\ LeftOut /\ Without
  <2>. HIDE DEF Published, LeftOut, Without
  <2>. QED
    BY <1>3, <1>4, <1>5
<1>. QED
  BY <1>1, <1>6, VideoTypesCorrect, TodoStays, PTL DEF Spec, HeldMeansUnpublished
=============================================================================
