--------------------------- MODULE LogScanProofs ---------------------------
(***************************************************************************)
(* Proofs about LogScan, for every set of threads, every directory and     *)
(* every number of failed calls.                                           *)
(***************************************************************************)
EXTENDS LogScan, FiniteSetTheorems, SequenceTheorems, TLAPS

----------------------------------------------------------------------------
(* The log *)

\* A line is the file it is in and its place there.
LEMMA LineType ==
  /\ \A l \in Lines : l[1] \in Files /\ l[2] \in 1..Len(Log[l[1]]) /\ l = <<l[1], l[2]>>
  /\ \A f \in Files : \A i \in 1..Len(Log[f]) : <<f, i>> \in Lines
  /\ Hits \subseteq Lines
BY DEF Lines, Hits

\* The directory has finitely many lines, so a map has finitely many keys.
LEMMA LinesFinite == IsFiniteSet(Lines)
<1> DEFINE linesOf == [f \in Files |-> {f} \X (1..Len(Log[f]))]
           all == { linesOf[f] : f \in Files }
<1>1. IsFiniteSet(all)
  <2>1. linesOf \in Surjection(Files, all)
    BY DEF Surjection
  <2> QED BY <2>1, FS_Surjection, FilesAssumption
<1>2. ASSUME NEW s \in all PROVE IsFiniteSet(s)
  <2>1. PICK f \in Files : s = {f} \X (1..Len(Log[f]))
    OBVIOUS
  <2>2. IsFiniteSet({f})
    BY FS_Singleton
  <2>3. IsFiniteSet(1..Len(Log[f]))
    <3>1. 1 \in Int /\ Len(Log[f]) \in Int
      BY LogAssumption
    <3> QED BY <3>1, FS_Interval
  <2> QED BY <2>1, <2>2, <2>3, FS_Product
<1>3. Lines = UNION all
  BY DEF Lines
<1> QED BY <1>1, <1>2, <1>3, FS_UNION

\* However many keys a thread's map has, their number is a number.
LEMMA KeysFinite ==
  ASSUME NEW x \in Fields, NEW map, NEW dropped \in SUBSET Keys(x, map)
  PROVE  IsFiniteSet(dropped) /\ Cardinality(dropped) \in Nat
<1> DEFINE lines == { h \in Hits : map[h] > 0 }
           keys == [l \in lines |-> Key(x, l)]
<1>1. IsFiniteSet(lines)
  BY LinesFinite, FS_Subset DEF Hits
<1>2. keys \in Surjection(lines, Keys(x, map))
  BY DEF Surjection, Keys
<1>3. IsFiniteSet(Keys(x, map))
  BY <1>1, <1>2, FS_Surjection
<1> QED BY <1>3, FS_Subset, FS_CardinalityType

----------------------------------------------------------------------------
(* Types *)

\* The fields a report has.
LEMMA FieldNames == Fields = {"served", "perUrl", "perRef"}
BY DEF Fields

\* The same, field by field.
LEMMA FieldMembers == "served" \in Fields /\ "perUrl" \in Fields /\ "perRef" \in Fields
BY DEF Fields

\* What is added to a bag of lines is a bag of lines.
LEMMA BagType ==
  /\ Zero \in Bags
  /\ \A a, b \in Bags : Plus(a, b) \in Bags
  /\ \A a \in Bags, l \in Lines : AddLine(a, l) \in Bags
  /\ EmptyReport \in Reports
BY DEF Zero, Bags, Plus, AddLine, EmptyReport, Reports

\* The bags that a thread and the report keep.
LEMMA ValueType ==
  ASSUME TypeOK, NEW t \in Threads, NEW x \in Fields
  PROVE  /\ mine[t] \in Reports /\ mine[t][x] \in Bags
         /\ report[x] \in Bags
         /\ bytes[t] \in Bags /\ loaded[t] \in Bags
BY DEF TypeOK, Reports

\* How often a line is in a bag: arithmetic, line by line.
LEMMA BagValues ==
  /\ \A l \in Lines : Zero[l] = 0
  /\ \A x \in Fields, l \in Lines : EmptyReport[x][l] = 0
  /\ \A a, b \in Bags, l \in Lines : Plus(a, b)[l] = a[l] + b[l]
  /\ \A a \in Bags, k, l \in Lines : AddLine(a, k)[l] = IF l = k THEN a[l] + 1 ELSE a[l]
  /\ \A a \in Bags, l \in Lines : a[l] \in Nat
BY DEF Zero, EmptyReport, Plus, AddLine, Bags

\* A write to one field of the report, or of a thread's own, leaves the others.
LEMMA ReportWrite ==
  ASSUME TypeOK, NEW x \in Fields, NEW b \in Bags,
         report' = [report EXCEPT ![x] = b]
  PROVE  /\ report' \in Reports
         /\ report'[x] = b
         /\ \A y \in Fields \ {x} : report'[y] = report[y]
BY DEF TypeOK, Reports

\* ... and a write to one field of a thread's report leaves the other threads' alone.
LEMMA MineWrite ==
  ASSUME TypeOK, NEW t \in Threads, NEW x \in Fields, NEW b \in Bags,
         mine' = [mine EXCEPT ![t][x] = b]
  PROVE  /\ mine' \in [Threads -> Reports]
         /\ mine'[t][x] = b
         /\ \A y \in Fields \ {x} : mine'[t][y] = mine[t][y]
         /\ \A u \in Threads \ {t} : mine'[u] = mine[u]
BY DEF TypeOK, Reports

\* No more calls fail than the bound allows.
LEMMA FaultsType ==
  ASSUME faults \in 0..MaxFaults, NEW n \in Nat, Fail(n)
  PROVE  faults' \in 0..MaxFaults
BY FaultsAssumption DEF Fail, CanFail

\* The head of a list that is not empty is a file, and so is the rest of it.
LEMMA ListType ==
  ASSUME files \in Seq(Files), files # <<>>
  PROVE  Head(files) \in Files /\ Tail(files) \in Seq(Files)
BY HeadTailProperties

\* A thread that is scanning is on a line of its file, or just past the last.
LEMMA LineOfFile ==
  ASSUME TypeOK, NEW t \in Threads, pc[t] \in {"open", "scan", "refer"}
  PROVE  /\ file[t] \in Files
         /\ Len(Log[file[t]]) \in Nat
         /\ line[t] \in Nat \ {0}
         /\ pc[t] = "refer" => /\ <<file[t], line[t]>> \in Hits
                              /\ line[t] <= Len(Log[file[t]])
<1>1. file[t] \in Files /\ line[t] \in Nat \ {0}
  BY DEF TypeOK, PlaceOK
<1>2. Len(Log[file[t]]) \in Nat
  BY <1>1, LogAssumption
<1>3. ASSUME pc[t] = "refer"
      PROVE  <<file[t], line[t]>> \in Hits /\ line[t] <= Len(Log[file[t]])
  <2> DEFINE l == <<file[t], line[t]>>
  <2>1. l \in Hits
    BY <1>3 DEF TypeOK, PlaceOK
  <2>2. l \in Lines /\ l[1] = file[t] /\ l[2] = line[t]
    BY <2>1, LineType
  <2>3. l[2] \in 1..Len(Log[l[1]])
    BY <2>2, LineType
  <2> QED BY <1>1, <1>2, <2>1, <2>2, <2>3
<1> QED BY <1>1, <1>2, <1>3

\* The writes of scan_file: a line more in one of the thread's maps, and the
\* bytes of a whole file in its total.
LEMMA ScanUrlWrite ==
  ASSUME TypeOK, NEW t \in Threads, ScanUrl(t)
  PROVE  /\ <<file[t], line[t]>> \in Lines
         /\ mine' \in [Threads -> Reports] /\ bytes' \in [Threads -> Bags]
         /\ mine'[t]["perUrl"] = AddLine(mine[t]["perUrl"], <<file[t], line[t]>>)
         /\ bytes'[t] = AddLine(bytes[t], <<file[t], line[t]>>)
         /\ \A y \in Fields \ {"perUrl"} : mine'[t][y] = mine[t][y]
         /\ \A u \in Threads \ {t} : mine'[u] = mine[u] /\ bytes'[u] = bytes[u]
<1> DEFINE l == <<file[t], line[t]>>
           b == AddLine(mine[t]["perUrl"], l)
<1>1. l \in Lines
  BY LineType DEF ScanUrl
<1>2. b \in Bags /\ AddLine(bytes[t], l) \in Bags
  BY <1>1, BagType, ValueType, FieldMembers
<1>3. mine' = [mine EXCEPT ![t]["perUrl"] = b]
  BY ValueType, FieldMembers DEF ScanUrl, TypeOK, Reports
<1>4. bytes' = [bytes EXCEPT ![t] = AddLine(bytes[t], l)]
  BY DEF ScanUrl, TypeOK
<1>5. /\ bytes' \in [Threads -> Bags]
      /\ bytes'[t] = AddLine(bytes[t], l)
      /\ \A u \in Threads \ {t} : bytes'[u] = bytes[u]
  BY <1>2, <1>4 DEF TypeOK
<1> HIDE DEF b
<1>6. /\ mine' \in [Threads -> Reports]
      /\ mine'[t]["perUrl"] = b
      /\ \A y \in Fields \ {"perUrl"} : mine'[t][y] = mine[t][y]
      /\ \A u \in Threads \ {t} : mine'[u] = mine[u]
  BY <1>2, <1>3, MineWrite, FieldMembers
<1> QED BY <1>1, <1>5, <1>6 DEF b

\* scan_file adds a line to the map of referers, and nothing else.
LEMMA ScanRefererWrite ==
  ASSUME TypeOK, NEW t \in Threads, ScanReferer(t)
  PROVE  /\ <<file[t], line[t]>> \in Lines
         /\ mine' \in [Threads -> Reports]
         /\ mine'[t]["perRef"] = AddLine(mine[t]["perRef"], <<file[t], line[t]>>)
         /\ \A y \in Fields \ {"perRef"} : mine'[t][y] = mine[t][y]
         /\ \A u \in Threads \ {t} : mine'[u] = mine[u]
<1> DEFINE l == <<file[t], line[t]>>
           b == AddLine(mine[t]["perRef"], l)
<1>1. l \in Lines
  BY LineType, LineOfFile DEF ScanReferer, Goto
<1>2. b \in Bags
  BY <1>1, BagType, ValueType, FieldMembers
<1>3. mine' = [mine EXCEPT ![t]["perRef"] = b]
  BY ValueType, FieldMembers DEF ScanReferer, TypeOK, Reports
<1> HIDE DEF b
<1>4. /\ mine' \in [Threads -> Reports]
      /\ mine'[t]["perRef"] = b
      /\ \A y \in Fields \ {"perRef"} : mine'[t][y] = mine[t][y]
      /\ \A u \in Threads \ {t} : mine'[u] = mine[u]
  BY <1>2, <1>3, MineWrite, FieldMembers
<1> QED BY <1>1, <1>4 DEF b

\* At the end of the file scan_file adds the bytes to the thread's total.
LEMMA EndOfFileWrite ==
  ASSUME TypeOK, NEW t \in Threads, EndOfFile(t)
  PROVE  /\ mine' \in [Threads -> Reports]
         /\ mine'[t]["served"] = Plus(mine[t]["served"], bytes[t])
         /\ \A y \in Fields \ {"served"} : mine'[t][y] = mine[t][y]
         /\ \A u \in Threads \ {t} : mine'[u] = mine[u]
<1> DEFINE b == Plus(mine[t]["served"], bytes[t])
<1>1. b \in Bags
  BY BagType, ValueType, FieldMembers
<1>2. mine' = [mine EXCEPT ![t]["served"] = b]
  BY ValueType, FieldMembers DEF EndOfFile, TypeOK, Reports
<1> HIDE DEF b
<1>3. /\ mine' \in [Threads -> Reports]
      /\ mine'[t]["served"] = b
      /\ \A y \in Fields \ {"served"} : mine'[t][y] = mine[t][y]
      /\ \A u \in Threads \ {t} : mine'[u] = mine[u]
  BY <1>1, <1>2, MineWrite, FieldMembers
<1> QED BY <1>3 DEF b

\* What merge_maps makes of a map of the report, whatever it drops: nothing the
\* thread has read is lost, nothing but what the thread has counted is added.
LEMMA MergedType ==
  ASSUME TypeOK, NEW t \in Threads, NEW x \in Fields, NEW dropped
  PROVE  /\ Merged(t, x, dropped) \in Bags
         /\ \A l \in Lines : /\ Merged(t, x, dropped)[l] >= loaded[t][l]
                            /\ Merged(t, x, dropped)[l] <= loaded[t][l] + mine[t][x][l]
<1> DEFINE rest == [l \in Lines |-> IF l \in Hits /\ Key(x, l) \in dropped
                                   THEN 0 ELSE mine[t][x][l]]
<1>1. mine[t][x] \in Bags /\ loaded[t] \in Bags
  BY ValueType
<1>2. rest \in Bags /\ \A l \in Lines : rest[l] <= mine[t][x][l]
  BY <1>1 DEF Bags
<1>3. Merged(t, x, dropped) = [l \in Lines |-> loaded[t][l] + rest[l]]
  BY DEF Merged, Plus
<1> HIDE DEF rest
<1> QED BY <1>1, <1>2, <1>3 DEF Bags

\* The thread's step stores its field of the report.
Stores(t) == StoreTotal(t) \/ StoreUrls(t) \/ StoreReferers(t)

\* A store writes one field of the report, what was loaded and at most the thread's
\* own lines, and no other.
LEMMA StoreWrite ==
  ASSUME TypeOK, NEW t \in Threads, Stores(t)
  PROVE  LET x == field[t]
         IN  /\ x \in Fields
             /\ report' \in Reports /\ faults' \in 0..MaxFaults
             /\ \A l \in Lines : /\ report'[x][l] >= loaded[t][l]
                                /\ report'[x][l] <= loaded[t][l] + mine[t][x][l]
             /\ \A y \in Fields \ {x} : report'[y] = report[y]
<1> DEFINE x == field[t]
<1>1. x \in Fields
  BY DEF TypeOK
<1>2. /\ faults' \in 0..MaxFaults
      /\ \E b \in Bags :
           /\ report' = [report EXCEPT ![x] = b]
           /\ \A l \in Lines : b[l] >= loaded[t][l] /\ b[l] <= loaded[t][l] + mine[t][x][l]
  <2>1. CASE StoreTotal(t)
    <3> DEFINE b == Plus(loaded[t], mine[t][x])
    <3>1. loaded[t] \in Bags /\ mine[t][x] \in Bags
      BY <1>1, ValueType
    <3>2. b \in Bags /\ \A l \in Lines : b[l] >= loaded[t][l] /\ b[l] <= loaded[t][l] + mine[t][x][l]
      BY <3>1 DEF Plus, Bags
    <3>3. report' = [report EXCEPT ![x] = b] /\ faults' = faults
      BY <2>1 DEF StoreTotal
    <3>4. faults' \in 0..MaxFaults
      BY <3>3 DEF TypeOK
    <3> HIDE DEF b
    <3> QED BY <3>2, <3>3, <3>4
  <2>2. CASE StoreUrls(t) \/ StoreReferers(t)
    <3>1. PICK dropped \in SUBSET NewKeys(t, x) :
            /\ Fail(Cardinality(dropped))
            /\ report' = [report EXCEPT ![x] = Merged(t, x, dropped)]
      BY <2>2 DEF StoreUrls, StoreReferers
    <3>2. Cardinality(dropped) \in Nat
      BY <1>1, KeysFinite DEF NewKeys
    <3>3. faults' \in 0..MaxFaults
      BY <3>1, <3>2, FaultsType DEF TypeOK
    <3> QED BY <1>1, <3>1, <3>3, MergedType
  <2> QED BY <2>1, <2>2 DEF Stores
<1>3. PICK b \in Bags :
        /\ report' = [report EXCEPT ![x] = b]
        /\ \A l \in Lines : b[l] >= loaded[t][l] /\ b[l] <= loaded[t][l] + mine[t][x][l]
  BY <1>2
<1> HIDE DEF x
<1>4. /\ report' \in Reports
      /\ report'[x] = b
      /\ \A y \in Fields \ {x} : report'[y] = report[y]
  BY <1>1, <1>3, ReportWrite
<1> QED BY <1>1, <1>2, <1>3, <1>4 DEF x

\* A store moves nothing but the thread, from one field to the next.
LEMMA StoreMove ==
  ASSUME TypeOK, NEW t \in Threads, Stores(t)
  PROVE  /\ pc[t] = "store" /\ pc'[t] \in {"load", "unlock"}
         /\ \A u \in Threads \ {t} : pc'[u] = pc[u] /\ field'[u] = field[u]
         /\ files' = files /\ file' = file /\ line' = line /\ bytes' = bytes
         /\ mine' = mine
         /\ \A x \in Fields : Added(t, x) \/ x = field[t] => Added(t, x)'
         /\ ~Settled(t, field[t])
<1>1. CASE StoreTotal(t)
  BY <1>1 DEF StoreTotal, Goto, TypeOK, Added, Settled
<1>2. CASE StoreUrls(t)
  BY <1>2 DEF StoreUrls, Goto, TypeOK, Added, Settled
<1>3. CASE StoreReferers(t)
  BY <1>3, FieldNames DEF StoreReferers, Goto, TypeOK, Added, Settled
<1> QED BY <1>1, <1>2, <1>3 DEF Stores

\* What a thread stores in the report is what was there, with lines of its own.
LEMMA StoreAdds ==
  ASSUME TypeOK, LockInv, NEW t \in Threads, Stores(t)
  PROVE  /\ field[t] \in Fields
         /\ report' \in Reports
         /\ \A x \in Fields \ {field[t]} : report'[x] = report[x]
         /\ \A l \in Lines :
              /\ report'[field[t]][l] >= report[field[t]][l]
              /\ report'[field[t]][l] <= report[field[t]][l] + mine[t][field[t]][l]
<1>1. loaded[t] = report[field[t]]
  BY StoreMove DEF LockInv
<1> QED BY <1>1, StoreWrite

\* The types hold at the start.
LEMMA InitType == Init => TypeOK
<1> SUFFICES ASSUME Init PROVE TypeOK
  OBVIOUS
<1>1. files \in Seq(Files) /\ faults \in 0..MaxFaults
  BY FaultsAssumption DEF Init
<1>2. field \in [Threads -> Fields]
  BY FieldMembers DEF Init
<1>3. PlaceOK
  BY DEF Init, PlaceOK
<1> QED BY <1>1, <1>2, <1>3, BagType DEF Init, TypeOK, PCs

\* Every step keeps the types; only the pop of a thread that holds the mutex
\* needs to know more, that the list is not empty.
LEMMA NextType ==
  ASSUME TypeOK, LockInv, [Next]_vars
  PROVE  TypeOK'
<1> USE DEF PCs, threadVars, mainVars
<1>1. ASSUME NEW t \in Threads, GetLock(t) PROVE TypeOK'
  BY <1>1 DEF GetLock, Goto, TypeOK, PlaceOK
<1>2. ASSUME NEW t \in Threads, ListEmpty(t) PROVE TypeOK'
  BY <1>2 DEF ListEmpty, Goto, AfterNull, TypeOK, PlaceOK
<1>3. ASSUME NEW t \in Threads, CopyName(t) PROVE TypeOK'
  BY <1>3, ListType DEF CopyName, Goto, TypeOK, PlaceOK
<1>4. ASSUME NEW t \in Threads, CopyNameNoMemory(t) PROVE TypeOK'
  BY <1>4, FaultsType DEF CopyNameNoMemory, Goto, AfterNull, TypeOK, PlaceOK
<1>5. ASSUME NEW t \in Threads, PopName(t) PROVE TypeOK'
  <2>1. files # <<>>
    BY <1>5 DEF PopName, Goto, LockInv
  <2>2. Tail(files) \in Seq(Files)
    BY <2>1, ListType DEF TypeOK
  <2> QED BY <1>5, <2>2 DEF PopName, Goto, TypeOK, PlaceOK
<1>6. ASSUME NEW t \in Threads, OpenFile(t) PROVE TypeOK'
  <2>0. /\ file[t] \in Files /\ Len(Log[file[t]]) \in Nat /\ line[t] \in Nat \ {0}
        /\ pc[t] = "refer" => line[t] <= Len(Log[file[t]])
    BY <1>6, LineOfFile DEF OpenFile, Goto
  <2>1. PlaceOK'
    <3>1. pc' = [pc EXCEPT ![t] = "scan"] /\ file' = file
      BY <1>6 DEF OpenFile, Goto
    <3>2. line'[t] <= Len(Log[file[t]]) + 1
      <4>1. line'[t] = 1
        BY <1>6 DEF OpenFile, TypeOK
      <4> QED BY <2>0, <4>1
    <3>3. \A u \in Threads \ {t} : line'[u] = line[u]
      BY <1>6 DEF OpenFile, TypeOK
    <3> QED BY <2>0, <3>1, <3>2, <3>3 DEF TypeOK, PlaceOK
  <2>3. line' \in [Threads -> Nat \ {0}]
    <3>1. line[t] + 1 \in Nat \ {0} /\ 1 \in Nat \ {0}
      BY <2>0
    <3> QED BY <1>6, <3>1 DEF OpenFile, TypeOK
  <2> QED BY <1>6, <2>1, BagType, <2>3 DEF OpenFile, Goto, TypeOK
<1>7. ASSUME NEW t \in Threads, ScanFails(t) PROVE TypeOK'
  BY <1>7, FaultsType DEF ScanFails, Goto, TypeOK, PlaceOK
<1>8. ASSUME NEW t \in Threads, ScanUrl(t) PROVE TypeOK'
  <2>1. mine' \in [Threads -> Reports] /\ bytes' \in [Threads -> Bags]
    BY <1>8, ScanUrlWrite
  <2> QED BY <1>8, <2>1 DEF ScanUrl, Goto, TypeOK, PlaceOK
<1>9. ASSUME NEW t \in Threads, ScanReferer(t) PROVE TypeOK'
  <2>0. /\ file[t] \in Files /\ Len(Log[file[t]]) \in Nat /\ line[t] \in Nat \ {0}
        /\ pc[t] = "refer" => line[t] <= Len(Log[file[t]])
    BY <1>9, LineOfFile DEF ScanReferer, Goto
  <2>1. mine' \in [Threads -> Reports]
    BY <1>9, ScanRefererWrite
  <2>2. PlaceOK'
    <3>1. pc' = [pc EXCEPT ![t] = "scan"] /\ file' = file
      BY <1>9 DEF ScanReferer, Goto
    <3>2. line'[t] <= Len(Log[file[t]]) + 1
      <4>1. line'[t] = line[t] + 1 /\ pc[t] = "refer"
        BY <1>9 DEF ScanReferer, Goto, TypeOK
      <4> QED BY <2>0, <4>1
    <3>3. \A u \in Threads \ {t} : line'[u] = line[u]
      BY <1>9 DEF ScanReferer, TypeOK
    <3> QED BY <2>0, <3>1, <3>2, <3>3 DEF TypeOK, PlaceOK
  <2>3. line' \in [Threads -> Nat \ {0}]
    <3>1. line[t] + 1 \in Nat \ {0} /\ 1 \in Nat \ {0}
      BY <2>0
    <3> QED BY <1>9, <3>1 DEF ScanReferer, TypeOK
  <2> QED BY <1>9, <2>1, <2>2, <2>3 DEF ScanReferer, Goto, TypeOK
<1>10. ASSUME NEW t \in Threads, SkipLine(t) PROVE TypeOK'
  <2>0. /\ file[t] \in Files /\ Len(Log[file[t]]) \in Nat /\ line[t] \in Nat \ {0}
        /\ pc[t] = "refer" => line[t] <= Len(Log[file[t]])
    BY <1>10, LineOfFile DEF SkipLine, Goto
  <2>1. PlaceOK'
    <3>1. pc' = [pc EXCEPT ![t] = "scan"] /\ file' = file
      BY <1>10 DEF SkipLine, Goto
    <3>2. line'[t] <= Len(Log[file[t]]) + 1
      <4>1. line'[t] = line[t] + 1 /\ line[t] <= Len(Log[file[t]])
        BY <1>10 DEF SkipLine, Goto, TypeOK
      <4> QED BY <2>0, <4>1
    <3>3. \A u \in Threads \ {t} : line'[u] = line[u]
      BY <1>10 DEF SkipLine, TypeOK
    <3> QED BY <2>0, <3>1, <3>2, <3>3 DEF TypeOK, PlaceOK
  <2>3. line' \in [Threads -> Nat \ {0}]
    <3>1. line[t] + 1 \in Nat \ {0} /\ 1 \in Nat \ {0}
      BY <2>0
    <3> QED BY <1>10, <3>1 DEF SkipLine, TypeOK
  <2> QED BY <1>10, <2>1, <2>3 DEF SkipLine, Goto, TypeOK
<1>11. ASSUME NEW t \in Threads, EndOfFile(t) PROVE TypeOK'
  <2>1. mine' \in [Threads -> Reports]
    BY <1>11, EndOfFileWrite
  <2> QED BY <1>11, <2>1 DEF EndOfFile, Goto, TypeOK, PlaceOK
<1>12. ASSUME NEW t \in Threads, UpdateLock(t) PROVE TypeOK'
  BY <1>12, FieldMembers DEF UpdateLock, Goto, TypeOK, PlaceOK
<1>13. ASSUME NEW t \in Threads, Load(t) PROVE TypeOK'
  BY <1>13, ValueType DEF Load, Goto, TypeOK, PlaceOK
<1>14. ASSUME NEW t \in Threads, StoreTotal(t) PROVE TypeOK'
  <2>1. report' \in Reports
    BY <1>14, StoreWrite DEF Stores
  <2> QED BY <1>14, <2>1, FieldMembers DEF StoreTotal, Goto, TypeOK, PlaceOK
<1>15. ASSUME NEW t \in Threads, StoreUrls(t) PROVE TypeOK'
  <2>1. report' \in Reports /\ faults' \in 0..MaxFaults
    BY <1>15, StoreWrite DEF Stores
  <2> QED BY <1>15, <2>1, FieldMembers DEF StoreUrls, Goto, TypeOK, PlaceOK
<1>16. ASSUME NEW t \in Threads, StoreReferers(t) PROVE TypeOK'
  <2>1. report' \in Reports /\ faults' \in 0..MaxFaults
    BY <1>16, StoreWrite DEF Stores
  <2> QED BY <1>16, <2>1 DEF StoreReferers, Goto, TypeOK, PlaceOK
<1>17. ASSUME NEW t \in Threads, UpdateUnlock(t) PROVE TypeOK'
  BY <1>17, BagType DEF UpdateUnlock, Goto, TypeOK, PlaceOK
<1>18. ASSUME NEW t \in Threads, TouchFreed(t) PROVE TypeOK'
  BY <1>18 DEF TouchFreed, TypeOK, PlaceOK
<1>19. ASSUME NEW t \in Threads, CreateThread(t) PROVE TypeOK'
  BY <1>19 DEF CreateThread, Goto, TypeOK, PlaceOK
<1>20. CASE AddFile
  <2>1. PICK f \in Files : files' = <<f>> \o files
    BY <1>20 DEF AddFile
  <2>2. <<f>> \in Seq(Files)
    BY <2>1
  <2>3. files' \in Seq(Files)
    BY <2>1, <2>2, ConcatProperties DEF TypeOK
  <2> QED BY <1>20, <2>3 DEF AddFile, TypeOK, PlaceOK
<1>21. CASE Listed
  BY <1>21 DEF Listed, TypeOK, PlaceOK
<1>22. CASE Created
  BY <1>22 DEF Created, TypeOK, PlaceOK
<1>23. CASE MainFails
  BY <1>23, FaultsType DEF MainFails, TypeOK, PlaceOK
<1>24. CASE Join
  BY <1>24 DEF Join, TypeOK, PlaceOK
<1>25. CASE PrintReport
  BY <1>25 DEF PrintReport, TypeOK, PlaceOK
<1>26. CASE CleanUp
  BY <1>26 DEF CleanUp, TypeOK, PlaceOK
<1>27. CASE Exit
  BY <1>27 DEF Exit, TypeOK, PlaceOK
<1>28. CASE UNCHANGED vars
  BY <1>28 DEF vars, TypeOK, PlaceOK
<1> QED BY <1>1, <1>2, <1>3, <1>4, <1>5, <1>6, <1>7, <1>8, <1>9, <1>10, <1>11, <1>12, <1>13, <1>14,
  <1>15, <1>16, <1>17, <1>18, <1>19, <1>20, <1>21, <1>22, <1>23, <1>24, <1>25, <1>26, <1>27, <1>28
  DEF Next, MainStep, ThreadStep, GetNextFile, ScanFile, UpdateReport, Ended

----------------------------------------------------------------------------
(* The list of files *)

\* What a thread pops is in the list, and then no more.
LEMMA PopRange ==
  ASSUME files \in Seq(Files), files # <<>>, ListInv
  PROVE  /\ Range(Tail(files)) \subseteq Range(files)
         /\ Head(files) \in Range(files)
         /\ Head(files) \notin Range(Tail(files))
         /\ \A i, j \in 1..Len(Tail(files)) : Tail(files)[i] = Tail(files)[j] => i = j
<1>1. /\ Len(files) \in Nat \ {0} /\ Len(Tail(files)) = Len(files) - 1
      /\ \A i \in 1..Len(Tail(files)) : Tail(files)[i] = files[i + 1]
      /\ DOMAIN files = 1..Len(files) /\ DOMAIN Tail(files) = 1..Len(Tail(files))
      /\ Head(files) = files[1]
  BY HeadTailProperties, LenProperties, EmptySeq
<1> QED BY <1>1 DEF ListInv, Range

\* What main() adds to the list was not in it.
LEMMA AddRange ==
  ASSUME files \in Seq(Files), NEW f \in Files, f \notin Range(files), ListInv,
         files' = <<f>> \o files
  PROVE  Range(files)' = Range(files) \cup {f} /\ ListInv'
<1> DEFINE s == <<f>> \o files
<1>1. /\ <<f>> \in Seq(Files) /\ Len(<<f>>) = 1 /\ <<f>>[1] = f
      /\ Len(files) \in Nat /\ DOMAIN files = 1..Len(files)
  BY LenProperties
<1>2. /\ s \in Seq(Files) /\ Len(s) = 1 + Len(files)
      /\ \A i \in 1..(1 + Len(files)) : s[i] = IF i <= 1 THEN <<f>>[i] ELSE files[i - 1]
  BY <1>1, ConcatProperties
<1>3. DOMAIN s = 1..(1 + Len(files))
  BY <1>2, LenProperties
<1> HIDE DEF s
<1>4. s[1] = f /\ \A i \in 1..(1 + Len(files)) : i # 1 => s[i] = files[i - 1] /\ i - 1 \in 1..Len(files)
  BY <1>1, <1>2
<1>5. \A i \in 1..Len(files) : i + 1 \in 1..(1 + Len(files)) /\ s[i + 1] = files[i]
  BY <1>1, <1>4
<1>6. \A i \in 1..Len(files) : f # files[i]
  BY <1>1 DEF Range
<1>7. Range(s) = Range(files) \cup {f}
  <2>1. Range(s) = { s[i] : i \in 1..(1 + Len(files)) }
    BY <1>3 DEF Range
  <2>2. Range(files) = { files[i] : i \in 1..Len(files) }
    BY <1>1 DEF Range
  <2>3. ASSUME NEW i \in 1..(1 + Len(files)) PROVE s[i] \in Range(files) \cup {f}
    <3>1. CASE i = 1
      BY <1>4, <3>1
    <3>2. CASE i # 1
      BY <1>4, <2>2, <3>2
    <3> QED BY <3>1, <3>2
  <2>4. \A i \in 1..Len(files) : files[i] \in Range(s)
    BY <1>5, <2>1
  <2>5. f \in Range(s)
    <3>1. 1 \in 1..(1 + Len(files))
      BY <1>1
    <3> QED BY <1>4, <2>1, <3>1
  <2> QED BY <2>1, <2>2, <2>3, <2>4, <2>5
<1>8. ASSUME NEW i \in 1..Len(s), NEW j \in 1..Len(s), s[i] = s[j] PROVE i = j
  <2>1. i \in 1..(1 + Len(files)) /\ j \in 1..(1 + Len(files))
    BY <1>2
  <2>2. CASE i = 1 \/ j = 1
    BY <1>4, <1>6, <1>8, <2>1, <2>2
  <2>3. CASE i # 1 /\ j # 1
    <3>1. i - 1 = j - 1
      BY <1>4, <1>8, <2>1, <2>3 DEF ListInv
    <3> QED BY <1>1, <2>1, <3>1
  <2> QED BY <2>2, <2>3
<1> QED BY <1>7, <1>8 DEF s, ListInv

----------------------------------------------------------------------------
(* Mutual exclusion, and what main() knows of the threads *)

\* Most steps of main() touch neither the threads nor what they share.
Quiet == UNCHANGED <<mutex, files, report, threadVars>>

\* Every step is one of a thread, one that adds a file, or one of the quiet ones.
LEMMA NextCases ==
  ASSUME [Next]_vars
  PROVE  (\E t \in Threads : ThreadStep(t) \/ CreateThread(t)) \/ AddFile \/ Quiet
BY DEF Next, MainStep, Ended, vars, Quiet, Listed, Created, MainFails, Join, PrintReport, CleanUp, Exit

\* Every step keeps mutual exclusion: what a thread has read under the mutex stays true.
LEMMA NextLock ==
  ASSUME TypeOK, LockInv, MainInv, [Next]_vars
  PROVE  LockInv'
<1> USE DEF threadVars, mainVars
<1>1. ASSUME NEW t \in Threads, GetLock(t) PROVE LockInv'
  BY <1>1, ThreadsAssumption DEF GetLock, Goto, TypeOK, LockInv, Locked, MainInv
<1>2. ASSUME NEW t \in Threads, ListEmpty(t) PROVE LockInv'
  BY <1>2 DEF ListEmpty, Goto, AfterNull, TypeOK, LockInv, Locked, MainInv
<1>3. ASSUME NEW t \in Threads, CopyName(t) PROVE LockInv'
  BY <1>3 DEF CopyName, Goto, TypeOK, LockInv, Locked, MainInv
<1>4. ASSUME NEW t \in Threads, CopyNameNoMemory(t) PROVE LockInv'
  BY <1>4 DEF CopyNameNoMemory, Goto, AfterNull, TypeOK, LockInv, Locked, MainInv
<1>5. ASSUME NEW t \in Threads, PopName(t) PROVE LockInv'
  BY <1>5 DEF PopName, Goto, TypeOK, LockInv, Locked, MainInv
<1>6. ASSUME NEW t \in Threads, OpenFile(t) PROVE LockInv'
  BY <1>6 DEF OpenFile, Goto, TypeOK, LockInv, Locked, MainInv
<1>7. ASSUME NEW t \in Threads, ScanFails(t) PROVE LockInv'
  BY <1>7 DEF ScanFails, Goto, TypeOK, LockInv, Locked, MainInv
<1>8. ASSUME NEW t \in Threads, ScanUrl(t) PROVE LockInv'
  BY <1>8 DEF ScanUrl, Goto, TypeOK, LockInv, Locked, MainInv
<1>9. ASSUME NEW t \in Threads, ScanReferer(t) PROVE LockInv'
  BY <1>9 DEF ScanReferer, Goto, TypeOK, LockInv, Locked, MainInv
<1>10. ASSUME NEW t \in Threads, SkipLine(t) PROVE LockInv'
  BY <1>10 DEF SkipLine, Goto, TypeOK, LockInv, Locked, MainInv
<1>11. ASSUME NEW t \in Threads, EndOfFile(t) PROVE LockInv'
  BY <1>11 DEF EndOfFile, Goto, TypeOK, LockInv, Locked, MainInv
<1>12. ASSUME NEW t \in Threads, UpdateLock(t) PROVE LockInv'
  BY <1>12, ThreadsAssumption DEF UpdateLock, Goto, TypeOK, LockInv, Locked, MainInv
<1>13. ASSUME NEW t \in Threads, Load(t) PROVE LockInv'
  BY <1>13 DEF Load, Goto, TypeOK, LockInv, Locked, MainInv
<1>14. ASSUME NEW t \in Threads, StoreTotal(t) PROVE LockInv'
  BY <1>14, FieldMembers, StoreWrite DEF StoreTotal, Goto, TypeOK, LockInv, Locked, MainInv
<1>15. ASSUME NEW t \in Threads, StoreUrls(t) PROVE LockInv'
  BY <1>15, FieldMembers, StoreWrite DEF StoreUrls, Goto, TypeOK, LockInv, Locked, MainInv
<1>16. ASSUME NEW t \in Threads, StoreReferers(t) PROVE LockInv'
  BY <1>16, FieldMembers, StoreWrite DEF StoreReferers, Goto, TypeOK, LockInv, Locked, MainInv
<1>17. ASSUME NEW t \in Threads, UpdateUnlock(t) PROVE LockInv'
  BY <1>17 DEF UpdateUnlock, Goto, TypeOK, LockInv, Locked, MainInv
<1>18. ASSUME NEW t \in Threads, TouchFreed(t) PROVE LockInv'
  BY <1>18 DEF TouchFreed, AtReport, Freed, TypeOK, LockInv, Locked, MainInv
<1>19. ASSUME NEW t \in Threads, CreateThread(t) PROVE LockInv'
  BY <1>19 DEF CreateThread, Goto, TypeOK, LockInv, Locked, MainInv
<1>20. CASE AddFile
  BY <1>20 DEF AddFile, TypeOK, LockInv, Locked, MainInv
<1>21. CASE Quiet
  BY <1>21 DEF Quiet, TypeOK, LockInv, Locked, MainInv
<1> QED BY <1>1, <1>2, <1>3, <1>4, <1>5, <1>6, <1>7, <1>8, <1>9, <1>10, <1>11, <1>12, <1>13, <1>14,
  <1>15, <1>16, <1>17, <1>18, <1>19, <1>20, <1>21, NextCases
  DEF ThreadStep, GetNextFile, ScanFile, UpdateReport

\* Every step keeps what main() knows of the threads it has created and joined.
LEMMA NextMain ==
  ASSUME TypeOK, LockInv, MainInv, [Next]_vars
  PROVE  MainInv'
<1> USE DEF threadVars, mainVars
<1>1. ASSUME NEW t \in Threads, GetLock(t) PROVE MainInv'
  BY <1>1 DEF GetLock, Goto, TypeOK, MainInv, SafeFree, Running
<1>2. ASSUME NEW t \in Threads, ListEmpty(t) PROVE MainInv'
  BY <1>2 DEF ListEmpty, Goto, AfterNull, TypeOK, MainInv, SafeFree, Running
<1>3. ASSUME NEW t \in Threads, CopyName(t) PROVE MainInv'
  BY <1>3 DEF CopyName, Goto, TypeOK, MainInv, SafeFree, Running
<1>4. ASSUME NEW t \in Threads, CopyNameNoMemory(t) PROVE MainInv'
  BY <1>4 DEF CopyNameNoMemory, Goto, AfterNull, TypeOK, MainInv, SafeFree, Running
<1>5. ASSUME NEW t \in Threads, PopName(t) PROVE MainInv'
  BY <1>5 DEF PopName, Goto, TypeOK, MainInv, SafeFree, Running
<1>6. ASSUME NEW t \in Threads, OpenFile(t) PROVE MainInv'
  BY <1>6 DEF OpenFile, Goto, TypeOK, MainInv, SafeFree, Running
<1>7. ASSUME NEW t \in Threads, ScanFails(t) PROVE MainInv'
  BY <1>7 DEF ScanFails, Goto, TypeOK, MainInv, SafeFree, Running
<1>8. ASSUME NEW t \in Threads, ScanUrl(t) PROVE MainInv'
  BY <1>8 DEF ScanUrl, Goto, TypeOK, MainInv, SafeFree, Running
<1>9. ASSUME NEW t \in Threads, ScanReferer(t) PROVE MainInv'
  BY <1>9 DEF ScanReferer, Goto, TypeOK, MainInv, SafeFree, Running
<1>10. ASSUME NEW t \in Threads, SkipLine(t) PROVE MainInv'
  BY <1>10 DEF SkipLine, Goto, TypeOK, MainInv, SafeFree, Running
<1>11. ASSUME NEW t \in Threads, EndOfFile(t) PROVE MainInv'
  BY <1>11 DEF EndOfFile, Goto, TypeOK, MainInv, SafeFree, Running
<1>12. ASSUME NEW t \in Threads, UpdateLock(t) PROVE MainInv'
  BY <1>12 DEF UpdateLock, Goto, TypeOK, MainInv, SafeFree, Running
<1>13. ASSUME NEW t \in Threads, Load(t) PROVE MainInv'
  BY <1>13 DEF Load, Goto, TypeOK, MainInv, SafeFree, Running
<1>14. ASSUME NEW t \in Threads, StoreTotal(t) PROVE MainInv'
  BY <1>14 DEF StoreTotal, Goto, TypeOK, MainInv, SafeFree, Running
<1>15. ASSUME NEW t \in Threads, StoreUrls(t) PROVE MainInv'
  BY <1>15 DEF StoreUrls, Goto, TypeOK, MainInv, SafeFree, Running
<1>16. ASSUME NEW t \in Threads, StoreReferers(t) PROVE MainInv'
  BY <1>16 DEF StoreReferers, Goto, TypeOK, MainInv, SafeFree, Running
<1>17. ASSUME NEW t \in Threads, UpdateUnlock(t) PROVE MainInv'
  BY <1>17 DEF UpdateUnlock, Goto, TypeOK, MainInv, SafeFree, Running
<1>18. ASSUME NEW t \in Threads, TouchFreed(t) PROVE MainInv'
  BY <1>18 DEF TouchFreed, AtReport, Freed, TypeOK, MainInv, SafeFree, Running
<1>19. ASSUME NEW t \in Threads, CreateThread(t) PROVE MainInv'
  BY <1>19 DEF CreateThread, Goto, TypeOK, MainInv, SafeFree, Running
<1>20. CASE AddFile
  BY <1>20 DEF AddFile, TypeOK, MainInv, SafeFree, Running
<1>21. CASE Listed
  BY <1>21 DEF Listed, TypeOK, MainInv, SafeFree, Running
<1>22. CASE Created
  BY <1>22 DEF Created, TypeOK, MainInv, SafeFree, Running
<1>23. CASE MainFails
  BY <1>23 DEF MainFails, TypeOK, MainInv, SafeFree, Running
<1>24. CASE Join
  BY <1>24 DEF Join, TypeOK, MainInv, SafeFree, Running
<1>25. CASE PrintReport
  BY <1>25 DEF PrintReport, TypeOK, MainInv, SafeFree, Running
<1>26. CASE CleanUp
  BY <1>26 DEF CleanUp, TypeOK, MainInv, SafeFree, Running
<1>27. CASE Exit
  BY <1>27 DEF Exit, TypeOK, MainInv, SafeFree, Running
<1>28. CASE UNCHANGED vars
  BY <1>28 DEF vars, TypeOK, MainInv, SafeFree, Running
<1> QED BY <1>1, <1>2, <1>3, <1>4, <1>5, <1>6, <1>7, <1>8, <1>9, <1>10, <1>11, <1>12, <1>13, <1>14,
  <1>15, <1>16, <1>17, <1>18, <1>19, <1>20, <1>21, <1>22, <1>23, <1>24, <1>25, <1>26, <1>27, <1>28
  DEF Next, MainStep, ThreadStep, GetNextFile, ScanFile, UpdateReport, Ended

\* Every step keeps the names in the list apart.
LEMMA NextList ==
  ASSUME TypeOK, LockInv, ListInv, [Next]_vars
  PROVE  ListInv'
<1> USE DEF threadVars, mainVars
<1>1. ASSUME NEW t \in Threads, GetLock(t) PROVE ListInv'
  BY <1>1 DEF GetLock, ListInv
<1>2. ASSUME NEW t \in Threads, ListEmpty(t) PROVE ListInv'
  BY <1>2 DEF ListEmpty, ListInv
<1>3. ASSUME NEW t \in Threads, CopyName(t) PROVE ListInv'
  BY <1>3 DEF CopyName, ListInv
<1>4. ASSUME NEW t \in Threads, CopyNameNoMemory(t) PROVE ListInv'
  BY <1>4 DEF CopyNameNoMemory, ListInv
<1>5. ASSUME NEW t \in Threads, PopName(t) PROVE ListInv'
  <2>1. files # <<>> /\ files' = Tail(files)
    BY <1>5 DEF PopName, Goto, LockInv
  <2>2. \A i, j \in 1..Len(Tail(files)) : Tail(files)[i] = Tail(files)[j] => i = j
    BY <2>1, PopRange DEF TypeOK
  <2> QED BY <2>1, <2>2 DEF ListInv
<1>6. ASSUME NEW t \in Threads, OpenFile(t) PROVE ListInv'
  BY <1>6 DEF OpenFile, ListInv
<1>7. ASSUME NEW t \in Threads, ScanFails(t) PROVE ListInv'
  BY <1>7 DEF ScanFails, ListInv
<1>8. ASSUME NEW t \in Threads, ScanUrl(t) PROVE ListInv'
  BY <1>8 DEF ScanUrl, ListInv
<1>9. ASSUME NEW t \in Threads, ScanReferer(t) PROVE ListInv'
  BY <1>9 DEF ScanReferer, ListInv
<1>10. ASSUME NEW t \in Threads, SkipLine(t) PROVE ListInv'
  BY <1>10 DEF SkipLine, ListInv
<1>11. ASSUME NEW t \in Threads, EndOfFile(t) PROVE ListInv'
  BY <1>11 DEF EndOfFile, ListInv
<1>12. ASSUME NEW t \in Threads, UpdateLock(t) PROVE ListInv'
  BY <1>12 DEF UpdateLock, ListInv
<1>13. ASSUME NEW t \in Threads, Load(t) PROVE ListInv'
  BY <1>13 DEF Load, ListInv
<1>14. ASSUME NEW t \in Threads, StoreTotal(t) PROVE ListInv'
  BY <1>14 DEF StoreTotal, ListInv
<1>15. ASSUME NEW t \in Threads, StoreUrls(t) PROVE ListInv'
  BY <1>15 DEF StoreUrls, ListInv
<1>16. ASSUME NEW t \in Threads, StoreReferers(t) PROVE ListInv'
  BY <1>16 DEF StoreReferers, ListInv
<1>17. ASSUME NEW t \in Threads, UpdateUnlock(t) PROVE ListInv'
  BY <1>17 DEF UpdateUnlock, ListInv
<1>18. ASSUME NEW t \in Threads, TouchFreed(t) PROVE ListInv'
  BY <1>18 DEF TouchFreed, ListInv
<1>19. ASSUME NEW t \in Threads, CreateThread(t) PROVE ListInv'
  BY <1>19 DEF CreateThread, ListInv
<1>20. CASE AddFile
  <2>1. PICK f \in Files : f \notin Range(files) /\ files' = <<f>> \o files
    BY <1>20 DEF AddFile
  <2> QED BY <2>1, AddRange DEF TypeOK
<1>21. CASE Quiet
  BY <1>21 DEF Quiet, ListInv
<1> QED BY <1>1, <1>2, <1>3, <1>4, <1>5, <1>6, <1>7, <1>8, <1>9, <1>10, <1>11, <1>12, <1>13, <1>14,
  <1>15, <1>16, <1>17, <1>18, <1>19, <1>20, <1>21, NextCases
  DEF ThreadStep, GetNextFile, ScanFile, UpdateReport

----------------------------------------------------------------------------
(* What a thread counts of the file it scans *)

\* A step of one thread leaves the place and the numbers of the others alone, so
\* only what that thread has counted is to be shown.
LEMMA ScanFrame ==
  ASSUME ScanInv, NEW t \in Threads,
         \A l \in Lines : Counted(t, l)',
         \A u \in Threads \ {t} :
           /\ pc'[u] = pc[u] /\ file'[u] = file[u] /\ line'[u] = line[u]
           /\ bytes'[u] = bytes[u] /\ mine'[u] = mine[u]
  PROVE  ScanInv'
<1>1. ASSUME NEW u \in Threads \ {t}, NEW l \in Lines PROVE Counted(u, l)'
  <2>1. Counted(u, l)
    BY DEF ScanInv
  <2> QED BY <2>1 DEF Counted, Scanning, Behind
<1> QED BY <1>1 DEF ScanInv

\* Every step keeps what a thread has counted to the lines behind it.
LEMMA NextScan ==
  ASSUME Inv, [Next]_vars
  PROVE  ScanInv'
<1> USE DEF threadVars, mainVars
<1> USE DEF Inv
<1>1. ASSUME NEW t \in Threads, GetLock(t) PROVE ScanInv'
  BY <1>1 DEF GetLock, Goto, TypeOK, ScanInv, Counted, Scanning, Behind
<1>2. ASSUME NEW t \in Threads, ListEmpty(t) PROVE ScanInv'
  BY <1>2 DEF ListEmpty, Goto, AfterNull, TypeOK, ScanInv, Counted, Scanning, Behind
<1>3. ASSUME NEW t \in Threads, CopyName(t) PROVE ScanInv'
  BY <1>3 DEF CopyName, Goto, TypeOK, ScanInv, Counted, Scanning, Behind
<1>4. ASSUME NEW t \in Threads, CopyNameNoMemory(t) PROVE ScanInv'
  BY <1>4 DEF CopyNameNoMemory, Goto, AfterNull, TypeOK, ScanInv, Counted, Scanning, Behind
<1>5. ASSUME NEW t \in Threads, PopName(t) PROVE ScanInv'
  <2>1. /\ pc'[t] = "open" /\ file' = file /\ mine' = mine
        /\ files # <<>> /\ file[t] = Head(files)
    BY <1>5 DEF PopName, Goto, TypeOK, LockInv
  <2>2. file[t] \in Files /\ file[t] \in Range(files)
    BY <2>1, ListType, PopRange DEF TypeOK
  <2>3. ~Owns(t, file[t])
    BY <2>2 DEF OwnerInv
  <2>4. \A x \in Fields, l \in Lines : l[1] = file[t] => mine[t][x][l] = 0
    BY <2>3, ValueType, BagValues DEF Owns
  <2> QED
    <3>1. \A l \in Lines : Counted(t, l)'
      BY <2>1, <2>4, FieldMembers DEF Counted, Scanning
    <3>2. \A u \in Threads \ {t} :
            /\ pc'[u] = pc[u] /\ file'[u] = file[u] /\ line'[u] = line[u]
            /\ bytes'[u] = bytes[u] /\ mine'[u] = mine[u]
      BY <1>5 DEF PopName, Goto, TypeOK
    <3> QED BY <3>1, <3>2, ScanFrame
<1>6. ASSUME NEW t \in Threads, OpenFile(t) PROVE ScanInv'
  <2>1. /\ pc[t] = "open" /\ pc'[t] = "scan" /\ file' = file /\ mine' = mine
        /\ line'[t] = 1 /\ bytes'[t] = Zero
    BY <1>6 DEF OpenFile, Goto, TypeOK
  <2>2. ASSUME NEW l \in Lines PROVE Counted(t, l)'
    <3>1. Counted(t, l) /\ Zero[l] = 0 /\ ~(l[2] < 1)
      BY LineType, LogAssumption, BagValues DEF ScanInv
    <3> QED BY <2>1, <3>1 DEF Counted, Scanning, Behind
  <2> QED
    <3>1. \A l \in Lines : Counted(t, l)'
      BY <2>2
    <3>2. \A u \in Threads \ {t} :
            /\ pc'[u] = pc[u] /\ file'[u] = file[u] /\ line'[u] = line[u]
            /\ bytes'[u] = bytes[u] /\ mine'[u] = mine[u]
      BY <1>6 DEF OpenFile, Goto, TypeOK
    <3> QED BY <3>1, <3>2, ScanFrame
<1>7. ASSUME NEW t \in Threads, ScanFails(t) PROVE ScanInv'
  <2>1. pc'[t] = "get"
    BY <1>7 DEF ScanFails, Goto, TypeOK
  <2> QED
    <3>1. \A l \in Lines : Counted(t, l)'
      BY <2>1 DEF Counted, Scanning
    <3>2. \A u \in Threads \ {t} :
            /\ pc'[u] = pc[u] /\ file'[u] = file[u] /\ line'[u] = line[u]
            /\ bytes'[u] = bytes[u] /\ mine'[u] = mine[u]
      BY <1>7 DEF ScanFails, Goto, TypeOK
    <3> QED BY <3>1, <3>2, ScanFrame
<1>8. ASSUME NEW t \in Threads, ScanUrl(t) PROVE ScanInv'
  <2> DEFINE k == <<file[t], line[t]>>
  <2>1. \A l \in Lines : l = k <=> l[1] = file[t] /\ l[2] = line[t]
    BY LineType
  <2>2. /\ pc[t] = "scan" /\ pc'[t] = "refer" /\ file' = file /\ line' = line /\ k \in Hits
        /\ line[t] \in Nat
    BY <1>8, LineOfFile DEF ScanUrl, Goto, TypeOK
  <2>3. ASSUME NEW l \in Lines PROVE Counted(t, l)'
    <3>1. Counted(t, l) /\ l[2] \in Nat
      BY LineType, LogAssumption DEF ScanInv
    <3>2. Behind(t, l)' <=> Behind(t, l) \/ l[2] = line[t]
      BY <2>2 DEF Behind
    <3>3. /\ mine'[t]["served"][l] = mine[t]["served"][l]
          /\ mine'[t]["perRef"][l] = mine[t]["perRef"][l]
          /\ mine'[t]["perUrl"][l] = IF l = k THEN mine[t]["perUrl"][l] + 1 ELSE mine[t]["perUrl"][l]
          /\ bytes'[t][l] = IF l = k THEN bytes[t][l] + 1 ELSE bytes[t][l]
      <4>1. "served" \in Fields \ {"perUrl"} /\ "perRef" \in Fields \ {"perUrl"}
        BY FieldNames
      <4>2. mine[t]["perUrl"] \in Bags /\ bytes[t] \in Bags /\ k \in Lines
        BY <1>8, ScanUrlWrite, ValueType, FieldMembers
      <4>3. AddLine(mine[t]["perUrl"], k)[l] = IF l = k THEN mine[t]["perUrl"][l] + 1
              ELSE mine[t]["perUrl"][l]
        BY <4>2, BagValues
      <4>4. AddLine(bytes[t], k)[l] = IF l = k THEN bytes[t][l] + 1 ELSE bytes[t][l]
        BY <4>2, BagValues
      <4> QED BY <1>8, <4>1, <4>3, <4>4, ScanUrlWrite
    <3>4. Scanning(t, l[1])' => Scanning(t, l[1])
      BY <2>2 DEF Scanning
    <3>5. bytes'[t][l] = IF l \in HitsOf(file[t]) /\ Behind(t, l)' THEN 1 ELSE 0
      <4>1. bytes[t][l] = IF l \in HitsOf(file[t]) /\ Behind(t, l) THEN 1 ELSE 0
        BY <2>2, <3>1 DEF Counted
      <4>2. l = k => ~Behind(t, l) /\ l \in HitsOf(file[t])
        BY <2>1, <2>2 DEF Behind, HitsOf
      <4>3. l \in HitsOf(file[t]) /\ l[2] = line[t] => l = k
        BY <2>1 DEF HitsOf
      <4> QED BY <2>1, <3>2, <3>3, <4>1, <4>2, <4>3
    <3> QED BY <2>1, <2>2, <3>1, <3>2, <3>3, <3>4, <3>5 DEF Counted
  <2> QED
    <3>1. \A l \in Lines : Counted(t, l)'
      BY <2>3
    <3>2. \A u \in Threads \ {t} :
            /\ pc'[u] = pc[u] /\ file'[u] = file[u] /\ line'[u] = line[u]
            /\ bytes'[u] = bytes[u] /\ mine'[u] = mine[u]
      BY <1>8, ScanUrlWrite DEF ScanUrl, Goto, TypeOK
    <3> QED BY <3>1, <3>2, ScanFrame
<1>9. ASSUME NEW t \in Threads, ScanReferer(t) PROVE ScanInv'
  <2> DEFINE k == <<file[t], line[t]>>
  <2>1. \A l \in Lines : l = k <=> l[1] = file[t] /\ l[2] = line[t]
    BY LineType
  <2>2. /\ pc[t] = "refer" /\ pc'[t] = "scan" /\ file' = file /\ bytes' = bytes
        /\ line[t] \in Nat /\ line'[t] = line[t] + 1
    BY <1>9, LineOfFile DEF ScanReferer, Goto, TypeOK
  <2>3. ASSUME NEW l \in Lines PROVE Counted(t, l)'
    <3>1. Counted(t, l) /\ l[2] \in Nat
      BY LineType, LogAssumption DEF ScanInv
    <3>2. Behind(t, l)' <=> Behind(t, l)
      BY <2>2, <3>1 DEF Behind
    <3>3. /\ mine'[t]["served"][l] = mine[t]["served"][l]
          /\ mine'[t]["perUrl"][l] = mine[t]["perUrl"][l]
          /\ mine'[t]["perRef"][l] = IF l = k THEN mine[t]["perRef"][l] + 1 ELSE mine[t]["perRef"][l]
      <4>1. "served" \in Fields \ {"perRef"} /\ "perUrl" \in Fields \ {"perRef"}
        BY FieldNames
      <4>2. mine[t]["perRef"] \in Bags /\ bytes[t] \in Bags /\ k \in Lines
        BY <1>9, ScanRefererWrite, ValueType, FieldMembers
      <4>3. AddLine(mine[t]["perRef"], k)[l] = IF l = k THEN mine[t]["perRef"][l] + 1
              ELSE mine[t]["perRef"][l]
        BY <4>2, BagValues
      <4>4. AddLine(bytes[t], k)[l] = IF l = k THEN bytes[t][l] + 1 ELSE bytes[t][l]
        BY <4>2, BagValues
      <4> QED BY <1>9, <4>1, <4>3, <4>4, ScanRefererWrite
    <3>4. Scanning(t, l[1])' => Scanning(t, l[1])
      BY <2>2 DEF Scanning
    <3>5. mine'[t]["perRef"][l] > 0 => mine[t]["perRef"][l] > 0 \/ l[2] = line[t]
      BY <2>1, <3>3
    <3>6. l[2] < line[t] \/ l[2] = line[t] => l[2] < line'[t]
      BY <2>2, <3>1
    <3>7. bytes'[t][l] = IF l \in HitsOf(file[t]) /\ Behind(t, l)' THEN 1 ELSE 0
      BY <2>2, <3>1, <3>2 DEF Counted
    <3> QED BY <2>2, <3>1, <3>2, <3>3, <3>4, <3>5, <3>6, <3>7 DEF Counted
  <2> QED
    <3>1. \A l \in Lines : Counted(t, l)'
      BY <2>3
    <3>2. \A u \in Threads \ {t} :
            /\ pc'[u] = pc[u] /\ file'[u] = file[u] /\ line'[u] = line[u]
            /\ bytes'[u] = bytes[u] /\ mine'[u] = mine[u]
      BY <1>9, ScanRefererWrite DEF ScanReferer, Goto, TypeOK
    <3> QED BY <3>1, <3>2, ScanFrame
<1>10. ASSUME NEW t \in Threads, SkipLine(t) PROVE ScanInv'
  <2> DEFINE k == <<file[t], line[t]>>
  <2>1. \A l \in Lines : l = k <=> l[1] = file[t] /\ l[2] = line[t]
    BY LineType
  <2>2. /\ pc[t] = "scan" /\ pc'[t] = "scan" /\ file' = file /\ bytes' = bytes /\ mine' = mine
        /\ line[t] \in Nat /\ line'[t] = line[t] + 1 /\ k \notin Hits
    BY <1>10, LineOfFile DEF SkipLine, Goto, TypeOK
  <2>3. ASSUME NEW l \in Lines PROVE Counted(t, l)'
    <3>1. Counted(t, l) /\ l[2] \in Nat
      BY LineType, LogAssumption DEF ScanInv
    <3>2. Behind(t, l)' <=> Behind(t, l) \/ l[2] = line[t]
      BY <2>2, <3>1 DEF Behind
    <3>3. l[2] < line[t] => l[2] < line'[t]
      BY <2>2, <3>1
    <3>4. l[2] = line[t] => l \notin HitsOf(file[t])
      BY <2>1, <2>2 DEF HitsOf
    <3>5. Scanning(t, l[1])' => Scanning(t, l[1])
      BY <2>2 DEF Scanning
    <3>6. bytes'[t][l] = IF l \in HitsOf(file[t]) /\ Behind(t, l)' THEN 1 ELSE 0
      BY <2>2, <3>1, <3>2, <3>4 DEF Counted
    <3> QED BY <2>2, <3>1, <3>2, <3>3, <3>5, <3>6 DEF Counted
  <2> QED
    <3>1. \A l \in Lines : Counted(t, l)'
      BY <2>3
    <3>2. \A u \in Threads \ {t} :
            /\ pc'[u] = pc[u] /\ file'[u] = file[u] /\ line'[u] = line[u]
            /\ bytes'[u] = bytes[u] /\ mine'[u] = mine[u]
      BY <1>10 DEF SkipLine, Goto, TypeOK
    <3> QED BY <3>1, <3>2, ScanFrame
<1>11. ASSUME NEW t \in Threads, EndOfFile(t) PROVE ScanInv'
  <2>1. pc'[t] = "get"
    BY <1>11 DEF EndOfFile, Goto, TypeOK
  <2> QED
    <3>1. \A l \in Lines : Counted(t, l)'
      BY <2>1 DEF Counted, Scanning
    <3>2. \A u \in Threads \ {t} :
            /\ pc'[u] = pc[u] /\ file'[u] = file[u] /\ line'[u] = line[u]
            /\ bytes'[u] = bytes[u] /\ mine'[u] = mine[u]
      BY <1>11, EndOfFileWrite DEF EndOfFile, Goto, TypeOK
    <3> QED BY <3>1, <3>2, ScanFrame
<1>12. ASSUME NEW t \in Threads, UpdateLock(t) PROVE ScanInv'
  BY <1>12 DEF UpdateLock, Goto, TypeOK, ScanInv, Counted, Scanning, Behind
<1>13. ASSUME NEW t \in Threads, Load(t) PROVE ScanInv'
  BY <1>13 DEF Load, Goto, TypeOK, ScanInv, Counted, Scanning, Behind
<1>14. ASSUME NEW t \in Threads, StoreTotal(t) PROVE ScanInv'
  <2>1. Stores(t)
    BY <1>14 DEF Stores
  <2> QED
    <3>1. \A l \in Lines : Counted(t, l)'
      BY <2>1, StoreMove DEF Counted, Scanning
    <3>2. \A u \in Threads \ {t} :
            /\ pc'[u] = pc[u] /\ file'[u] = file[u] /\ line'[u] = line[u]
            /\ bytes'[u] = bytes[u] /\ mine'[u] = mine[u]
      BY <2>1, StoreMove
    <3> QED BY <3>1, <3>2, ScanFrame
<1>15. ASSUME NEW t \in Threads, StoreUrls(t) PROVE ScanInv'
  <2>1. Stores(t)
    BY <1>15 DEF Stores
  <2> QED
    <3>1. \A l \in Lines : Counted(t, l)'
      BY <2>1, StoreMove DEF Counted, Scanning
    <3>2. \A u \in Threads \ {t} :
            /\ pc'[u] = pc[u] /\ file'[u] = file[u] /\ line'[u] = line[u]
            /\ bytes'[u] = bytes[u] /\ mine'[u] = mine[u]
      BY <2>1, StoreMove
    <3> QED BY <3>1, <3>2, ScanFrame
<1>16. ASSUME NEW t \in Threads, StoreReferers(t) PROVE ScanInv'
  <2>1. Stores(t)
    BY <1>16 DEF Stores
  <2> QED
    <3>1. \A l \in Lines : Counted(t, l)'
      BY <2>1, StoreMove DEF Counted, Scanning
    <3>2. \A u \in Threads \ {t} :
            /\ pc'[u] = pc[u] /\ file'[u] = file[u] /\ line'[u] = line[u]
            /\ bytes'[u] = bytes[u] /\ mine'[u] = mine[u]
      BY <2>1, StoreMove
    <3> QED BY <3>1, <3>2, ScanFrame
<1>17. ASSUME NEW t \in Threads, UpdateUnlock(t) PROVE ScanInv'
  BY <1>17 DEF UpdateUnlock, Goto, TypeOK, ScanInv, Counted, Scanning, Behind
<1>18. ASSUME NEW t \in Threads, TouchFreed(t) PROVE ScanInv'
  BY <1>18 DEF TouchFreed, AtReport, Freed, TypeOK, ScanInv, Counted, Scanning, Behind
<1>19. ASSUME NEW t \in Threads, CreateThread(t) PROVE ScanInv'
  BY <1>19 DEF CreateThread, Goto, TypeOK, ScanInv, Counted, Scanning, Behind
<1>20. CASE AddFile
  BY <1>20 DEF AddFile, TypeOK, ScanInv, Counted, Scanning, Behind
<1>21. CASE Quiet
  BY <1>21 DEF Quiet, TypeOK, ScanInv, Counted, Scanning, Behind
<1> QED BY <1>1, <1>2, <1>3, <1>4, <1>5, <1>6, <1>7, <1>8, <1>9, <1>10, <1>11, <1>12, <1>13, <1>14,
  <1>15, <1>16, <1>17, <1>18, <1>19, <1>20, <1>21, NextCases
  DEF ThreadStep, GetNextFile, ScanFile, UpdateReport

----------------------------------------------------------------------------
(* Every file has one owner *)

\* A thread that adds its lines to the report owns their files.
LEMMA OwnerAtStore ==
  ASSUME Inv, NEW t \in Threads, Stores(t)
  PROVE  OwnerInv'
<1> USE DEF Inv
<1>1. \A u \in Threads, f \in Files : Owns(u, f)' => Owns(u, f)
  BY StoreMove DEF Owns, Scanning
<1>2. \A u \in Threads, x \in Fields : Settled(u, x) => Settled(u, x)'
  <2>1. ASSUME NEW u \in Threads \ {t}, NEW x \in Fields, Settled(u, x)
        PROVE  Settled(u, x)'
    BY <2>1, StoreMove DEF Settled, Added
  <2>2. ASSUME NEW x \in Fields, Settled(t, x) PROVE Settled(t, x)'
    BY <2>2, StoreMove DEF Settled
  <2> QED BY <2>1, <2>2
<1>3. ASSUME NEW u \in Threads, NEW x \in Fields, NEW l \in Lines,
             Owns(u, l[1]), report'[x][l] > 0
      PROVE  Settled(u, x)'
  <2>1. l[1] \in Files
    BY LineType
  <2>2. CASE report[x][l] > 0
    BY <1>2, <1>3, <2>1, <2>2 DEF OwnerInv
  <2>3. CASE ~(report[x][l] > 0)
    <3>1. x = field[t]
      BY <1>3, <2>3, StoreAdds
    <3>2. /\ report[x][l] \in Nat /\ mine[t][x][l] \in Nat /\ report'[x][l] \in Nat
          /\ report'[x][l] <= report[x][l] + mine[t][x][l]
      BY <3>1, StoreAdds, ValueType, BagValues DEF Reports
    <3>3. mine[t][x][l] > 0
      BY <1>3, <2>3, <3>2
    <3>4. u = t
      BY <1>3, <2>1, <3>3 DEF OwnerInv, Owns
    <3> QED BY <3>1, <3>4, StoreMove DEF Settled
  <2> QED BY <2>2, <2>3
<1>4. files' = files
  BY StoreMove
<1> QED BY <1>1, <1>3, <1>4 DEF OwnerInv

\* A step that gives no thread a file and adds nothing to the report keeps the owners.
LEMMA OwnerFrame ==
  ASSUME OwnerInv,
         report' = report, Range(files)' \subseteq Range(files),
         \A t \in Threads, f \in Files :
           Owns(t, f)' => Owns(t, f) /\ \A x \in Fields : Settled(t, x) => Settled(t, x)'
  PROVE  OwnerInv'
BY DEF OwnerInv

\* Every step keeps a file that is off the list with one owner, until it is settled.
LEMMA NextOwner ==
  ASSUME Inv, [Next]_vars
  PROVE  OwnerInv'
<1> USE DEF threadVars, mainVars
<1> USE DEF Inv
<1>1. ASSUME NEW t \in Threads, GetLock(t) PROVE OwnerInv'
  <2>1. \A u \in Threads, f \in Files : Owns(u, f)' => Owns(u, f)
    BY <1>1 DEF GetLock, Goto, TypeOK, Owns, Scanning
  <2>2. \A u \in Threads, x \in Fields : Settled(u, x) => Settled(u, x)'
    BY <1>1 DEF GetLock, Goto, TypeOK, Settled, Added
  <2> QED BY <1>1, <2>1, <2>2, OwnerFrame DEF GetLock
<1>2. ASSUME NEW t \in Threads, ListEmpty(t) PROVE OwnerInv'
  <2>1. \A u \in Threads, f \in Files : Owns(u, f)' => Owns(u, f)
    BY <1>2 DEF ListEmpty, Goto, AfterNull, TypeOK, Owns, Scanning
  <2>2. \A u \in Threads, x \in Fields : Settled(u, x) => Settled(u, x)'
    BY <1>2 DEF ListEmpty, Goto, AfterNull, TypeOK, Settled, Added
  <2> QED BY <1>2, <2>1, <2>2, OwnerFrame DEF ListEmpty
<1>3. ASSUME NEW t \in Threads, CopyName(t) PROVE OwnerInv'
  <2>1. \A u \in Threads, f \in Files : Owns(u, f)' => Owns(u, f)
    BY <1>3 DEF CopyName, Goto, TypeOK, Owns, Scanning
  <2>2. \A u \in Threads, x \in Fields : Settled(u, x) => Settled(u, x)'
    BY <1>3 DEF CopyName, Goto, TypeOK, Settled, Added
  <2> QED BY <1>3, <2>1, <2>2, OwnerFrame DEF CopyName
<1>4. ASSUME NEW t \in Threads, CopyNameNoMemory(t) PROVE OwnerInv'
  <2>1. \A u \in Threads, f \in Files : Owns(u, f)' => Owns(u, f)
    BY <1>4 DEF CopyNameNoMemory, Goto, AfterNull, TypeOK, Owns, Scanning
  <2>2. \A u \in Threads, x \in Fields : Settled(u, x) => Settled(u, x)'
    BY <1>4 DEF CopyNameNoMemory, Goto, AfterNull, TypeOK, Settled, Added
  <2> QED BY <1>4, <2>1, <2>2, OwnerFrame DEF CopyNameNoMemory
<1>5. ASSUME NEW t \in Threads, PopName(t) PROVE OwnerInv'
  <2>1. /\ pc[t] = "pop" /\ pc'[t] = "open" /\ file' = file /\ mine' = mine
        /\ \A u \in Threads \ {t} : pc'[u] = pc[u]
        /\ files # <<>> /\ file[t] = Head(files) /\ files' = Tail(files)
        /\ report' = report /\ field' = field
    BY <1>5 DEF PopName, Goto, TypeOK, LockInv
  <2> DEFINE g == file[t]
  <2>2. /\ g \in Files /\ g \in Range(files) /\ g \notin Range(files')
        /\ Range(files') \subseteq Range(files)
    BY <2>1, ListType, PopRange DEF TypeOK
  <2>3. \A u \in Threads : ~Owns(u, g)
    BY <2>2 DEF OwnerInv
  <2>4. \A u \in Threads, f \in Files : Owns(u, f)' => Owns(u, f) \/ (u = t /\ f = g)
    BY <2>1 DEF Owns, Scanning
  <2>5. \A u \in Threads, x \in Fields : Settled(u, x) => Settled(u, x)'
    BY <2>1 DEF Settled, Added
  <2>6. \A x \in Fields, l \in Lines : l[1] = g => ~(report[x][l] > 0)
    BY <2>2 DEF CountInv
  <2>7. ASSUME NEW u \in Threads, NEW f \in Files, Owns(u, f)'
        PROVE  /\ f \notin Range(files')
               /\ \A v \in Threads : Owns(v, f)' => v = u
               /\ \A x \in Fields, l \in Lines :
                    l[1] = f /\ report'[x][l] > 0 => Settled(u, x)'
    <3>1. CASE f = g
      BY <2>1, <2>2, <2>3, <2>4, <2>6, <2>7, <3>1
    <3>2. CASE f # g
      <4>1. Owns(u, f)
        BY <2>4, <2>7, <3>2
      <4>2. \A v \in Threads : Owns(v, f)' => Owns(v, f)
        BY <2>4, <3>2
      <4> QED BY <2>1, <2>2, <2>5, <4>1, <4>2 DEF OwnerInv
    <3> QED BY <3>1, <3>2
  <2> QED BY <2>7 DEF OwnerInv
<1>6. ASSUME NEW t \in Threads, OpenFile(t) PROVE OwnerInv'
  <2>1. \A u \in Threads, f \in Files : Owns(u, f)' => Owns(u, f)
    BY <1>6 DEF OpenFile, Goto, TypeOK, Owns, Scanning
  <2>2. \A u \in Threads, x \in Fields : Settled(u, x) => Settled(u, x)'
    BY <1>6 DEF OpenFile, Goto, TypeOK, Settled, Added
  <2> QED BY <1>6, <2>1, <2>2, OwnerFrame DEF OpenFile
<1>7. ASSUME NEW t \in Threads, ScanFails(t) PROVE OwnerInv'
  <2>1. \A u \in Threads, f \in Files : Owns(u, f)' => Owns(u, f)
    BY <1>7 DEF ScanFails, Goto, TypeOK, Owns, Scanning
  <2>2. \A u \in Threads, x \in Fields : Settled(u, x) => Settled(u, x)'
    BY <1>7 DEF ScanFails, Goto, TypeOK, Settled, Added
  <2> QED BY <1>7, <2>1, <2>2, OwnerFrame DEF ScanFails
<1>8. ASSUME NEW t \in Threads, ScanUrl(t) PROVE OwnerInv'
  <2>1. /\ pc[t] = "scan" /\ pc'[t] = "refer" /\ file' = file
        /\ \A u \in Threads \ {t} : pc'[u] = pc[u]
    BY <1>8 DEF ScanUrl, Goto, TypeOK
  <2>2. \A u \in Threads, f \in Files : Owns(u, f)' => Owns(u, f)
    <3>1. ASSUME NEW x \in Fields, NEW l \in Lines, mine'[t][x][l] > 0, x = "perUrl"
          PROVE  mine[t][x][l] > 0 \/ Scanning(t, l[1])
      <4>1. mine'[t]["perUrl"][l] = mine[t]["perUrl"][l] \/ l = <<file[t], line[t]>>
        <5>1. mine[t]["perUrl"] \in Bags /\ <<file[t], line[t]>> \in Lines
          BY <1>8, ScanUrlWrite, ValueType, FieldMembers
        <5>2. l # <<file[t], line[t]>> =>
                AddLine(mine[t]["perUrl"], <<file[t], line[t]>>)[l] = mine[t]["perUrl"][l]
          BY <5>1, BagValues
        <5> QED BY <1>8, <5>2, ScanUrlWrite
      <4>2. l = <<file[t], line[t]>> => l[1] = file[t]
        OBVIOUS
      <4> QED BY <2>1, <3>1, <4>1, <4>2 DEF Scanning
    <3>2. \A x \in Fields, l \in Lines :
            mine'[t][x][l] > 0 => mine[t][x][l] > 0 \/ Scanning(t, l[1])
      BY <1>8, <3>1, ScanUrlWrite
    <3>3. \A f \in Files : Owns(t, f)' => Owns(t, f)
      BY <2>1, <3>2 DEF Owns, Scanning
    <3>4. \A u \in Threads \ {t}, f \in Files : Owns(u, f)' => Owns(u, f)
      BY <1>8, <2>1, ScanUrlWrite DEF Owns, Scanning
    <3> QED BY <3>3, <3>4
  <2>3. \A u \in Threads, x \in Fields : Settled(u, x) => Settled(u, x)'
    BY <1>8 DEF ScanUrl, Goto, TypeOK, Settled, Added
  <2> QED BY <1>8, <2>2, <2>3, OwnerFrame DEF ScanUrl
<1>9. ASSUME NEW t \in Threads, ScanReferer(t) PROVE OwnerInv'
  <2>1. /\ pc[t] = "refer" /\ pc'[t] = "scan" /\ file' = file
        /\ \A u \in Threads \ {t} : pc'[u] = pc[u]
    BY <1>9 DEF ScanReferer, Goto, TypeOK
  <2>2. \A u \in Threads, f \in Files : Owns(u, f)' => Owns(u, f)
    <3>1. ASSUME NEW x \in Fields, NEW l \in Lines, mine'[t][x][l] > 0, x = "perRef"
          PROVE  mine[t][x][l] > 0 \/ Scanning(t, l[1])
      <4>1. mine'[t]["perRef"][l] = mine[t]["perRef"][l] \/ l = <<file[t], line[t]>>
        <5>1. mine[t]["perRef"] \in Bags /\ <<file[t], line[t]>> \in Lines
          BY <1>9, ScanRefererWrite, ValueType, FieldMembers
        <5>2. l # <<file[t], line[t]>> =>
                AddLine(mine[t]["perRef"], <<file[t], line[t]>>)[l] = mine[t]["perRef"][l]
          BY <5>1, BagValues
        <5> QED BY <1>9, <5>2, ScanRefererWrite
      <4>2. l = <<file[t], line[t]>> => l[1] = file[t]
        OBVIOUS
      <4> QED BY <2>1, <3>1, <4>1, <4>2 DEF Scanning
    <3>2. \A x \in Fields, l \in Lines :
            mine'[t][x][l] > 0 => mine[t][x][l] > 0 \/ Scanning(t, l[1])
      BY <1>9, <3>1, ScanRefererWrite
    <3>3. \A f \in Files : Owns(t, f)' => Owns(t, f)
      BY <2>1, <3>2 DEF Owns, Scanning
    <3>4. \A u \in Threads \ {t}, f \in Files : Owns(u, f)' => Owns(u, f)
      BY <1>9, <2>1, ScanRefererWrite DEF Owns, Scanning
    <3> QED BY <3>3, <3>4
  <2>3. \A u \in Threads, x \in Fields : Settled(u, x) => Settled(u, x)'
    BY <1>9 DEF ScanReferer, Goto, TypeOK, Settled, Added
  <2> QED BY <1>9, <2>2, <2>3, OwnerFrame DEF ScanReferer
<1>10. ASSUME NEW t \in Threads, SkipLine(t) PROVE OwnerInv'
  <2>1. \A u \in Threads, f \in Files : Owns(u, f)' => Owns(u, f)
    BY <1>10 DEF SkipLine, Goto, TypeOK, Owns, Scanning
  <2>2. \A u \in Threads, x \in Fields : Settled(u, x) => Settled(u, x)'
    BY <1>10 DEF SkipLine, Goto, TypeOK, Settled, Added
  <2> QED BY <1>10, <2>1, <2>2, OwnerFrame DEF SkipLine
<1>11. ASSUME NEW t \in Threads, EndOfFile(t) PROVE OwnerInv'
  <2>1. /\ pc[t] = "scan" /\ pc'[t] = "get" /\ file' = file
        /\ \A u \in Threads \ {t} : pc'[u] = pc[u]
    BY <1>11 DEF EndOfFile, Goto, TypeOK
  <2>2. \A u \in Threads, f \in Files : Owns(u, f)' => Owns(u, f)
    <3>1. ASSUME NEW x \in Fields, NEW l \in Lines, mine'[t][x][l] > 0, x = "served"
          PROVE  mine[t][x][l] > 0 \/ Scanning(t, l[1])
      <4>1. mine'[t]["served"][l] = mine[t]["served"][l] + bytes[t][l]
        BY <1>11, EndOfFileWrite, ValueType, BagValues, FieldMembers
      <4>2. bytes[t][l] = 0 \/ l \in HitsOf(file[t])
        BY <1>11 DEF EndOfFile, Goto, ScanInv, Counted
      <4>3. l \in HitsOf(file[t]) => l[1] = file[t]
        BY DEF HitsOf
      <4>4. mine[t]["served"][l] \in Nat
        BY ValueType, BagValues, FieldMembers
      <4> QED BY <2>1, <3>1, <4>1, <4>2, <4>3, <4>4 DEF Scanning
    <3>2. \A x \in Fields, l \in Lines :
            mine'[t][x][l] > 0 => mine[t][x][l] > 0 \/ Scanning(t, l[1])
      BY <1>11, <3>1, EndOfFileWrite
    <3>3. \A f \in Files : Owns(t, f)' => Owns(t, f)
      BY <2>1, <3>2 DEF Owns, Scanning
    <3>4. \A u \in Threads \ {t}, f \in Files : Owns(u, f)' => Owns(u, f)
      BY <1>11, <2>1, EndOfFileWrite DEF Owns, Scanning
    <3> QED BY <3>3, <3>4
  <2>3. \A u \in Threads, x \in Fields : Settled(u, x) => Settled(u, x)'
    BY <1>11 DEF EndOfFile, Goto, TypeOK, Settled, Added
  <2> QED BY <1>11, <2>2, <2>3, OwnerFrame DEF EndOfFile
<1>12. ASSUME NEW t \in Threads, UpdateLock(t) PROVE OwnerInv'
  <2>1. \A u \in Threads, f \in Files : Owns(u, f)' => Owns(u, f)
    BY <1>12 DEF UpdateLock, Goto, TypeOK, Owns, Scanning
  <2>2. \A u \in Threads, x \in Fields : Settled(u, x) => Settled(u, x)'
    BY <1>12 DEF UpdateLock, Goto, TypeOK, Settled, Added
  <2> QED BY <1>12, <2>1, <2>2, OwnerFrame DEF UpdateLock
<1>13. ASSUME NEW t \in Threads, Load(t) PROVE OwnerInv'
  <2>1. \A u \in Threads, f \in Files : Owns(u, f)' => Owns(u, f)
    BY <1>13 DEF Load, Goto, TypeOK, Owns, Scanning
  <2>2. \A u \in Threads, x \in Fields : Settled(u, x) => Settled(u, x)'
    BY <1>13 DEF Load, Goto, TypeOK, Settled, Added
  <2> QED BY <1>13, <2>1, <2>2, OwnerFrame DEF Load
<1>14. ASSUME NEW t \in Threads, StoreTotal(t) PROVE OwnerInv'
  BY <1>14, OwnerAtStore DEF Stores
<1>15. ASSUME NEW t \in Threads, StoreUrls(t) PROVE OwnerInv'
  BY <1>15, OwnerAtStore DEF Stores
<1>16. ASSUME NEW t \in Threads, StoreReferers(t) PROVE OwnerInv'
  BY <1>16, OwnerAtStore DEF Stores
<1>17. ASSUME NEW t \in Threads, UpdateUnlock(t) PROVE OwnerInv'
  <2>1. /\ pc[t] = "unlock" /\ pc'[t] = "done" /\ file' = file /\ mine'[t] = EmptyReport
        /\ \A u \in Threads \ {t} : pc'[u] = pc[u] /\ mine'[u] = mine[u]
        /\ report' = report /\ files' = files /\ field' = field
    BY <1>17 DEF UpdateUnlock, Goto, TypeOK
  <2>2. ASSUME NEW f \in Files PROVE ~Owns(t, f)'
    BY <2>1, BagValues DEF Owns, Scanning
  <2>3. ASSUME NEW u \in Threads \ {t}, NEW f \in Files, Owns(u, f)'
        PROVE  Owns(u, f) /\ \A x \in Fields : Settled(u, x) => Settled(u, x)'
    BY <2>1, <2>3 DEF Owns, Scanning, Settled, Added
  <2> QED BY <2>1, <2>2, <2>3, OwnerFrame
<1>18. ASSUME NEW t \in Threads, TouchFreed(t) PROVE OwnerInv'
  <2>1. \A u \in Threads, f \in Files : Owns(u, f)' => Owns(u, f)
    BY <1>18 DEF TouchFreed, AtReport, TypeOK, Owns, Scanning
  <2>2. \A u \in Threads, x \in Fields : Settled(u, x) => Settled(u, x)'
    BY <1>18 DEF TouchFreed, AtReport, TypeOK, Settled, Added
  <2> QED BY <1>18, <2>1, <2>2, OwnerFrame DEF TouchFreed
<1>19. ASSUME NEW t \in Threads, CreateThread(t) PROVE OwnerInv'
  <2>1. /\ pc[t] = "unborn" /\ pc' = [pc EXCEPT ![t] = "get"] /\ file' = file /\ mine' = mine
        /\ report' = report /\ files' = files /\ field' = field
    BY <1>19 DEF CreateThread, Goto
  <2>2. \A u \in Threads, f \in Files : Owns(u, f)' => Owns(u, f)
    BY <2>1 DEF TypeOK, Owns, Scanning
  <2>3. \A u \in Threads, x \in Fields : Settled(u, x) => Settled(u, x)'
    BY <2>1 DEF TypeOK, Settled, Added
  <2> QED BY <2>1, <2>2, <2>3, OwnerFrame
<1>20. CASE AddFile
  <2>1. /\ mine' = mine /\ file' = file /\ pc' = pc
        /\ \A u \in Threads : pc[u] = "unborn" /\ mine[u] = EmptyReport
    BY <1>20 DEF AddFile, MainInv, LockInv
  <2>2. \A u \in Threads, f \in Files : ~Owns(u, f)'
    BY <2>1, BagValues DEF Owns, Scanning
  <2> QED BY <2>2 DEF OwnerInv
<1>21. CASE Quiet
  <2>1. \A u \in Threads, f \in Files : Owns(u, f)' => Owns(u, f)
    BY <1>21 DEF Quiet, TypeOK, Owns, Scanning
  <2>2. \A u \in Threads, x \in Fields : Settled(u, x) => Settled(u, x)'
    BY <1>21 DEF Quiet, TypeOK, Settled, Added
  <2> QED BY <1>21, <2>1, <2>2, OwnerFrame DEF Quiet
<1> QED BY <1>1, <1>2, <1>3, <1>4, <1>5, <1>6, <1>7, <1>8, <1>9, <1>10, <1>11, <1>12, <1>13, <1>14,
  <1>15, <1>16, <1>17, <1>18, <1>19, <1>20, <1>21, NextCases
  DEF ThreadStep, GetNextFile, ScanFile, UpdateReport

----------------------------------------------------------------------------
(* No line is counted twice, and no file in part *)

\* A store counts no line twice: what the thread adds to a field is not in it yet.
LEMMA CountAtStore ==
  ASSUME Inv, NEW t \in Threads, Stores(t)
  PROVE  CountInv'
<1> USE DEF Inv
<1>1. ASSUME NEW x \in Fields, NEW l \in Lines
      PROVE  report'[x][l] <= 1 /\ (report'[x][l] > 0 => l[1] \notin Range(files))
  <2>1. l[1] \in Files
    BY LineType
  <2>2. /\ report[x][l] \in Nat /\ mine[t][x][l] \in Nat
        /\ report[x][l] <= 1 /\ (report[x][l] > 0 => l[1] \notin Range(files))
        /\ mine[t][x][l] <= 1
    BY ValueType, BagValues DEF CountInv
  <2>3. report'[x][l] \in Nat
    BY StoreAdds, BagValues DEF Reports
  <2>4. CASE x # field[t] \/ mine[t][x][l] = 0
    <3>1. report'[x][l] = report[x][l]
      BY <2>2, <2>3, <2>4, StoreAdds
    <3> QED BY <2>2, <3>1
  <2>5. CASE x = field[t] /\ mine[t][x][l] > 0
    <3>1. Owns(t, l[1])
      BY <2>5 DEF Owns
    <3>2. l[1] \notin Range(files) /\ ~(report[x][l] > 0)
      BY <2>1, <2>5, <3>1, StoreMove DEF OwnerInv
    <3>3. report'[x][l] <= report[x][l] + mine[t][x][l]
      BY <2>5, StoreAdds
    <3> QED BY <2>2, <2>3, <3>2, <3>3
  <2> QED BY <2>2, <2>4, <2>5
<1> QED BY <1>1, StoreMove DEF CountInv

\* Every step keeps the count of each line at one or less.
LEMMA NextCount ==
  ASSUME Inv, [Next]_vars
  PROVE  CountInv'
<1> USE DEF threadVars, mainVars
<1> USE DEF Inv
<1>1. ASSUME NEW t \in Threads, GetLock(t) PROVE CountInv'
  BY <1>1 DEF GetLock, Goto, TypeOK, CountInv
<1>2. ASSUME NEW t \in Threads, ListEmpty(t) PROVE CountInv'
  BY <1>2 DEF ListEmpty, Goto, AfterNull, TypeOK, CountInv
<1>3. ASSUME NEW t \in Threads, CopyName(t) PROVE CountInv'
  BY <1>3 DEF CopyName, Goto, TypeOK, CountInv
<1>4. ASSUME NEW t \in Threads, CopyNameNoMemory(t) PROVE CountInv'
  BY <1>4 DEF CopyNameNoMemory, Goto, AfterNull, TypeOK, CountInv
<1>5. ASSUME NEW t \in Threads, PopName(t) PROVE CountInv'
  <2>1. /\ files # <<>> /\ files' = Tail(files) /\ report' = report /\ mine' = mine
    BY <1>5 DEF PopName, Goto, LockInv
  <2>2. Range(files') \subseteq Range(files)
    BY <2>1, PopRange DEF TypeOK
  <2> QED BY <2>1, <2>2 DEF CountInv
<1>6. ASSUME NEW t \in Threads, OpenFile(t) PROVE CountInv'
  BY <1>6 DEF OpenFile, Goto, TypeOK, CountInv
<1>7. ASSUME NEW t \in Threads, ScanFails(t) PROVE CountInv'
  BY <1>7 DEF ScanFails, Goto, TypeOK, CountInv
<1>8. ASSUME NEW t \in Threads, ScanUrl(t) PROVE CountInv'
  <2> DEFINE k == <<file[t], line[t]>>
  <2>1. mine[t]["perUrl"] \in Bags /\ k \in Lines /\ pc[t] = "scan"
    BY <1>8, ScanUrlWrite, ValueType, FieldMembers DEF ScanUrl, Goto
  <2>2. k[1] = file[t] /\ k[2] = line[t] /\ line[t] \in Nat
    BY <2>1, LineOfFile
  <2>3. mine[t]["perUrl"][k] = 0
    <3>1. Counted(t, k) /\ Scanning(t, k[1]) /\ mine[t]["perUrl"][k] \in Nat
      BY <2>1, <2>2, BagValues DEF ScanInv, Scanning
    <3> QED BY <2>1, <2>2, <3>1 DEF Counted, Behind
  <2>4. ASSUME NEW l \in Lines PROVE mine'[t]["perUrl"][l] <= 1
    <3>1. AddLine(mine[t]["perUrl"], k)[l] = IF l = k THEN mine[t]["perUrl"][l] + 1 ELSE mine[t]["perUrl"][l]
      BY <2>1, BagValues
    <3>2. mine[t]["perUrl"][l] <= 1
      BY FieldMembers DEF CountInv
    <3>3. mine'[t]["perUrl"][l] = AddLine(mine[t]["perUrl"], k)[l]
      BY <1>8, ScanUrlWrite
    <3> QED BY <2>3, <3>1, <3>2, <3>3
  <2>5. \A u \in Threads, x \in Fields, l \in Lines : mine'[u][x][l] <= 1
    <3>1. ASSUME NEW u \in Threads, NEW x \in Fields, NEW l \in Lines, u # t \/ x # "perUrl"
          PROVE  mine'[u][x][l] <= 1
      <4>1. mine'[u][x] = mine[u][x]
        BY <1>8, <3>1, ScanUrlWrite
      <4> QED BY <4>1 DEF CountInv
    <3> QED BY <2>4, <3>1
  <2> QED BY <1>8, <2>5 DEF ScanUrl, CountInv
<1>9. ASSUME NEW t \in Threads, ScanReferer(t) PROVE CountInv'
  <2> DEFINE k == <<file[t], line[t]>>
  <2>1. mine[t]["perRef"] \in Bags /\ k \in Lines /\ pc[t] = "refer"
    BY <1>9, ScanRefererWrite, ValueType, FieldMembers DEF ScanReferer, Goto
  <2>2. k[1] = file[t] /\ k[2] = line[t] /\ line[t] \in Nat
    BY <2>1, LineOfFile
  <2>3. mine[t]["perRef"][k] = 0
    <3>1. Counted(t, k) /\ Scanning(t, k[1]) /\ mine[t]["perRef"][k] \in Nat
      BY <2>1, <2>2, BagValues DEF ScanInv, Scanning
    <3> QED BY <2>1, <2>2, <3>1 DEF Counted, Behind
  <2>4. ASSUME NEW l \in Lines PROVE mine'[t]["perRef"][l] <= 1
    <3>1. AddLine(mine[t]["perRef"], k)[l] = IF l = k THEN mine[t]["perRef"][l] + 1 ELSE mine[t]["perRef"][l]
      BY <2>1, BagValues
    <3>2. mine[t]["perRef"][l] <= 1
      BY FieldMembers DEF CountInv
    <3>3. mine'[t]["perRef"][l] = AddLine(mine[t]["perRef"], k)[l]
      BY <1>9, ScanRefererWrite
    <3> QED BY <2>3, <3>1, <3>2, <3>3
  <2>5. \A u \in Threads, x \in Fields, l \in Lines : mine'[u][x][l] <= 1
    <3>1. ASSUME NEW u \in Threads, NEW x \in Fields, NEW l \in Lines, u # t \/ x # "perRef"
          PROVE  mine'[u][x][l] <= 1
      <4>1. mine'[u][x] = mine[u][x]
        BY <1>9, <3>1, ScanRefererWrite
      <4> QED BY <4>1 DEF CountInv
    <3> QED BY <2>4, <3>1
  <2> QED BY <1>9, <2>5 DEF ScanReferer, CountInv
<1>10. ASSUME NEW t \in Threads, SkipLine(t) PROVE CountInv'
  BY <1>10 DEF SkipLine, Goto, TypeOK, CountInv
<1>11. ASSUME NEW t \in Threads, EndOfFile(t) PROVE CountInv'
  <2>1. ASSUME NEW l \in Lines PROVE mine'[t]["served"][l] <= 1
    <3>1. mine'[t]["served"][l] = mine[t]["served"][l] + bytes[t][l]
      BY <1>11, EndOfFileWrite, ValueType, BagValues, FieldMembers
    <3>2. /\ mine[t]["served"][l] \in Nat /\ mine[t]["served"][l] <= 1
          /\ bytes[t][l] = 0 \/ bytes[t][l] = 1
      BY <1>11, ValueType, BagValues, FieldMembers DEF CountInv, EndOfFile, Goto, ScanInv, Counted
    <3>3. bytes[t][l] = 1 => mine[t]["served"][l] = 0
      <4>1. pc[t] = "scan" /\ Counted(t, l)
        BY <1>11 DEF EndOfFile, Goto, ScanInv
      <4>2. bytes[t][l] = 1 => l[1] = file[t]
        BY <4>1 DEF Counted, HitsOf
      <4> QED BY <4>1, <4>2 DEF Counted, Scanning
    <3> QED BY <3>1, <3>2, <3>3
  <2>2. \A u \in Threads, x \in Fields, l \in Lines : mine'[u][x][l] <= 1
    BY <1>11, <2>1, EndOfFileWrite DEF CountInv
  <2> QED BY <1>11, <2>2 DEF EndOfFile, CountInv
<1>12. ASSUME NEW t \in Threads, UpdateLock(t) PROVE CountInv'
  BY <1>12 DEF UpdateLock, Goto, TypeOK, CountInv
<1>13. ASSUME NEW t \in Threads, Load(t) PROVE CountInv'
  BY <1>13 DEF Load, Goto, TypeOK, CountInv
<1>14. ASSUME NEW t \in Threads, StoreTotal(t) PROVE CountInv'
  BY <1>14, CountAtStore DEF Stores
<1>15. ASSUME NEW t \in Threads, StoreUrls(t) PROVE CountInv'
  BY <1>15, CountAtStore DEF Stores
<1>16. ASSUME NEW t \in Threads, StoreReferers(t) PROVE CountInv'
  BY <1>16, CountAtStore DEF Stores
<1>17. ASSUME NEW t \in Threads, UpdateUnlock(t) PROVE CountInv'
  <2>1. /\ mine'[t] = EmptyReport /\ \A u \in Threads \ {t} : mine'[u] = mine[u]
        /\ report' = report /\ files' = files
    BY <1>17 DEF UpdateUnlock, TypeOK
  <2>2. \A u \in Threads, x \in Fields, l \in Lines : mine'[u][x][l] <= 1
    BY <2>1, BagValues DEF CountInv
  <2> QED BY <2>1, <2>2 DEF CountInv
<1>18. ASSUME NEW t \in Threads, TouchFreed(t) PROVE CountInv'
  BY <1>18 DEF TouchFreed, AtReport, Freed, TypeOK, CountInv
<1>19. ASSUME NEW t \in Threads, CreateThread(t) PROVE CountInv'
  BY <1>19 DEF CreateThread, Goto, TypeOK, CountInv
<1>20. CASE AddFile
  <2>1. report' = report /\ report = EmptyReport /\ mine' = mine
    BY <1>20 DEF AddFile, MainInv
  <2> QED BY <2>1, BagValues DEF CountInv
<1>21. CASE Quiet
  BY <1>21 DEF Quiet, TypeOK, CountInv
<1> QED BY <1>1, <1>2, <1>3, <1>4, <1>5, <1>6, <1>7, <1>8, <1>9, <1>10, <1>11, <1>12, <1>13, <1>14,
  <1>15, <1>16, <1>17, <1>18, <1>19, <1>20, <1>21, NextCases
  DEF ThreadStep, GetNextFile, ScanFile, UpdateReport

\* Two bags of whole files make a bag of whole files.
LEMMA WholePlus ==
  ASSUME NEW a \in Bags, NEW b \in Bags, Whole(a), Whole(b)
  PROVE  Whole(Plus(a, b))
BY BagValues, LineType DEF Whole

\* Every step keeps the totals whole.
LEMMA NextWhole ==
  ASSUME Inv, [Next]_vars
  PROVE  WholeInv'
<1> USE DEF threadVars, mainVars
<1> USE DEF Inv
<1>1. ASSUME NEW t \in Threads, GetLock(t) PROVE WholeInv'
  BY <1>1 DEF GetLock, WholeInv, WholeFiles
<1>2. ASSUME NEW t \in Threads, ListEmpty(t) PROVE WholeInv'
  BY <1>2 DEF ListEmpty, WholeInv, WholeFiles
<1>3. ASSUME NEW t \in Threads, CopyName(t) PROVE WholeInv'
  BY <1>3 DEF CopyName, WholeInv, WholeFiles
<1>4. ASSUME NEW t \in Threads, CopyNameNoMemory(t) PROVE WholeInv'
  BY <1>4 DEF CopyNameNoMemory, WholeInv, WholeFiles
<1>5. ASSUME NEW t \in Threads, PopName(t) PROVE WholeInv'
  BY <1>5 DEF PopName, WholeInv, WholeFiles
<1>6. ASSUME NEW t \in Threads, OpenFile(t) PROVE WholeInv'
  BY <1>6 DEF OpenFile, WholeInv, WholeFiles
<1>7. ASSUME NEW t \in Threads, ScanFails(t) PROVE WholeInv'
  BY <1>7 DEF ScanFails, WholeInv, WholeFiles
<1>8. ASSUME NEW t \in Threads, ScanUrl(t) PROVE WholeInv'
  <2>1. "served" \in Fields \ {"perUrl"}
    BY FieldNames
  <2>2. \A u \in Threads : mine'[u]["served"] = mine[u]["served"]
    BY <1>8, <2>1, ScanUrlWrite
  <2> QED BY <1>8, <2>2 DEF ScanUrl, WholeInv, WholeFiles
<1>9. ASSUME NEW t \in Threads, ScanReferer(t) PROVE WholeInv'
  <2>1. "served" \in Fields \ {"perRef"}
    BY FieldNames
  <2>2. \A u \in Threads : mine'[u]["served"] = mine[u]["served"]
    BY <1>9, <2>1, ScanRefererWrite
  <2> QED BY <1>9, <2>2 DEF ScanReferer, WholeInv, WholeFiles
<1>10. ASSUME NEW t \in Threads, SkipLine(t) PROVE WholeInv'
  BY <1>10 DEF SkipLine, WholeInv, WholeFiles
<1>11. ASSUME NEW t \in Threads, EndOfFile(t) PROVE WholeInv'
  <2>1. Whole(bytes[t])
    <3>1. /\ pc[t] = "scan" /\ line[t] > Len(Log[file[t]])
          /\ file[t] \in Files /\ line[t] \in Nat /\ Len(Log[file[t]]) \in Nat
      BY <1>11, LineOfFile DEF EndOfFile, Goto
    <3>2. ASSUME NEW l \in Hits PROVE bytes[t][l] = IF l[1] = file[t] THEN 1 ELSE 0
      <4>1. l \in Lines /\ l[2] \in 1..Len(Log[l[1]])
        BY LineType
      <4>2. l[1] = file[t] => Behind(t, l)
        BY <3>1, <4>1 DEF Behind
      <4>3. Counted(t, l)
        BY <4>1 DEF ScanInv
      <4> QED BY <3>1, <4>2, <4>3 DEF Counted, HitsOf
    <3> QED BY <3>2 DEF Whole
  <2>2. Whole(Plus(mine[t]["served"], bytes[t]))
    BY <2>1, WholePlus, ValueType, FieldMembers DEF WholeInv
  <2>3. \A u \in Threads : Whole(mine'[u]["served"])
    BY <1>11, <2>2, EndOfFileWrite DEF WholeInv
  <2> QED BY <1>11, <2>3 DEF EndOfFile, WholeInv, WholeFiles
<1>12. ASSUME NEW t \in Threads, UpdateLock(t) PROVE WholeInv'
  BY <1>12 DEF UpdateLock, WholeInv, WholeFiles
<1>13. ASSUME NEW t \in Threads, Load(t) PROVE WholeInv'
  BY <1>13 DEF Load, WholeInv, WholeFiles
<1>14. ASSUME NEW t \in Threads, StoreTotal(t) PROVE WholeInv'
  <2>1. /\ report'["served"] = Plus(report["served"], mine[t]["served"])
        /\ mine' = mine
    BY <1>14, FieldMembers DEF StoreTotal, Goto, LockInv, TypeOK, Reports
  <2>2. Whole(Plus(report["served"], mine[t]["served"]))
    BY WholePlus, ValueType, FieldMembers DEF WholeInv, WholeFiles
  <2> QED BY <2>1, <2>2 DEF WholeInv, WholeFiles
<1>15. ASSUME NEW t \in Threads, StoreUrls(t) PROVE WholeInv'
  <2>1. mine' = mine /\ report'["served"] = report["served"]
    <3>1. Stores(t) /\ field[t] = "perUrl"
      BY <1>15 DEF Stores, StoreUrls
    <3>2. "served" \in Fields \ {"perUrl"}
      BY FieldNames
    <3> QED BY <3>1, <3>2, StoreMove, StoreAdds
  <2> QED BY <2>1 DEF WholeInv, WholeFiles
<1>16. ASSUME NEW t \in Threads, StoreReferers(t) PROVE WholeInv'
  <2>1. mine' = mine /\ report'["served"] = report["served"]
    <3>1. Stores(t) /\ field[t] = "perRef"
      BY <1>16 DEF Stores, StoreReferers
    <3>2. "served" \in Fields \ {"perRef"}
      BY FieldNames
    <3> QED BY <3>1, <3>2, StoreMove, StoreAdds
  <2> QED BY <2>1 DEF WholeInv, WholeFiles
<1>17. ASSUME NEW t \in Threads, UpdateUnlock(t) PROVE WholeInv'
  <2>1. /\ mine'[t] = EmptyReport /\ \A u \in Threads \ {t} : mine'[u] = mine[u]
        /\ report' = report
    BY <1>17 DEF UpdateUnlock, TypeOK
  <2>2. Whole(EmptyReport["served"])
    BY BagValues, FieldMembers, LineType DEF Whole
  <2> QED BY <2>1, <2>2 DEF WholeInv, WholeFiles
<1>18. ASSUME NEW t \in Threads, TouchFreed(t) PROVE WholeInv'
  BY <1>18 DEF TouchFreed, WholeInv, WholeFiles
<1>19. ASSUME NEW t \in Threads, CreateThread(t) PROVE WholeInv'
  BY <1>19 DEF CreateThread, WholeInv, WholeFiles
<1>20. CASE AddFile
  BY <1>20 DEF AddFile, WholeInv, WholeFiles
<1>21. CASE Quiet
  BY <1>21 DEF Quiet, WholeInv, WholeFiles
<1> QED BY <1>1, <1>2, <1>3, <1>4, <1>5, <1>6, <1>7, <1>8, <1>9, <1>10, <1>11, <1>12, <1>13, <1>14,
  <1>15, <1>16, <1>17, <1>18, <1>19, <1>20, <1>21, NextCases
  DEF ThreadStep, GetNextFile, ScanFile, UpdateReport

----------------------------------------------------------------------------
(* The theorems *)

\* The invariant holds when the program starts ...
LEMMA InitInv == Init => Inv
<1> SUFFICES ASSUME Init PROVE Inv
  OBVIOUS
<1>1. TypeOK
  BY InitType
<1>2. LockInv /\ MainInv
  BY DEF Init, LockInv, Locked, MainInv, SafeFree
<1>3. ListInv
  BY DEF Init, ListInv
<1>4. ScanInv
  BY DEF Init, ScanInv, Counted, Scanning
<1>5. OwnerInv
  BY BagValues DEF Init, OwnerInv, Owns, Scanning
<1>6. CountInv
  BY BagValues DEF Init, CountInv
<1>7. WholeInv
  BY BagValues, FieldMembers, LineType DEF Init, WholeInv, WholeFiles, Whole
<1> QED BY <1>1, <1>2, <1>3, <1>4, <1>5, <1>6, <1>7 DEF Inv

\* ... and every step keeps it.
LEMMA NextInv == Inv /\ [Next]_vars => Inv'
<1> SUFFICES ASSUME Inv, [Next]_vars PROVE Inv'
  OBVIOUS
<1>1. TypeOK /\ LockInv /\ MainInv /\ ListInv
  BY DEF Inv
<1> QED BY <1>1, NextType, NextLock, NextMain, NextList, NextScan, NextOwner,
        NextCount, NextWhole DEF Inv

\* The inductive invariant: one thread owns a file on its way from the list to the report.
THEOREM Invariance == Spec => []Inv
BY InitInv, NextInv, PTL DEF Spec

\* Every variable keeps its type, however the threads interleave and fail.
THEOREM TypeCorrect == Spec => []TypeOK
<1>1. Inv => TypeOK
  BY DEF Inv
<1> QED BY <1>1, Invariance, PTL

\* No log line is added twice to a number of the report: the list hands every
\* file to one thread, and update_scan_report adds it under the mutex.
THEOREM CountedOnceCorrect == Spec => []CountedOnce
<1>1. Inv => CountedOnce
  BY DEF Inv, CountInv, CountedOnce
<1> QED BY <1>1, Invariance, PTL

\* The total never has a part of a file, whichever scans fail in the middle.
THEOREM WholeFilesCorrect == Spec => []WholeFiles
<1>1. Inv => WholeFiles
  BY DEF Inv, WholeInv
<1> QED BY <1>1, Invariance, PTL

\* A thread that has joined never touches the report clean_up frees; only after
\* a failed pthread_create or pthread_join can a thread do so.
THEOREM SafeFreeCorrect == Spec => []SafeFree
<1>1. Inv => SafeFree
  BY DEF Inv, MainInv
<1> QED BY <1>1, Invariance, PTL

\* No update of the report is lost, since what a thread has read under the mutex
\* is still in the report when the thread writes.
THEOREM GrowsCorrect == Spec => ReportOnlyGrows
<1>1. ASSUME Inv, [Next]_vars, NEW x \in Fields, NEW l \in Lines
      PROVE  report'[x][l] >= report[x][l]
  <2>1. TypeOK /\ LockInv
    BY <1>1 DEF Inv
  <2>2. CASE report' = report
    <3>1. report[x] \in Bags
      BY <2>1 DEF TypeOK, Reports
    <3>2. report[x][l] \in Nat
      BY <3>1, BagValues
    <3> QED BY <2>2, <3>2
  <2>3. ASSUME NEW t \in Threads, Stores(t) PROVE report'[x][l] >= report[x][l]
    <3>1. CASE x = field[t]
      BY <2>1, <2>3, <3>1, StoreAdds
    <3>2. CASE x # field[t]
      <4>1. report'[x] = report[x] /\ report[x] \in Bags
        BY <2>1, <2>3, <3>2, StoreAdds DEF TypeOK, Reports
      <4>2. report[x][l] \in Nat
        BY <4>1, BagValues
      <4> QED BY <4>1, <4>2
    <3> QED BY <3>1, <3>2
  <2>4. report' = report \/ \E t \in Threads : Stores(t)
    BY <1>1, NextCases DEF Quiet, Stores, ThreadStep, GetNextFile, ScanFile, UpdateReport,
      GetLock, ListEmpty, CopyName, CopyNameNoMemory, PopName, OpenFile, ScanFails, ScanUrl,
      ScanReferer, SkipLine, EndOfFile, UpdateLock, Load, UpdateUnlock, TouchFreed,
      CreateThread, AddFile
  <2> QED BY <2>2, <2>3, <2>4
<1>2. Inv /\ [Next]_vars => [\A x \in Fields, l \in Lines : report'[x][l] >= report[x][l]]_vars
  BY <1>1
<1> QED BY <1>2, InitInv, NextInv, PTL DEF Spec, ReportOnlyGrows

----------------------------------------------------------------------------
(* What no failure explains is in the report: the invariant of ReportConsistent *)

\* main() has not failed while it can still print, and fails only if a call did.
ExitInv ==
  /\ main \in {"list", "create", "join", "print"} => exit_code = 0 /\ output = "nothing"
  /\ output # "nothing" => exit_code = 0
  /\ exit_code = 1 => faults > 0

\* The thread has counted line l in its map of URLs; its byte count follows at the
\* end of the file, its map of referers with the next step.
Balanced(t, l) ==
  /\ mine[t]["perUrl"][l] =
       mine[t]["served"][l] + (IF pc[t] \in {"scan", "refer"} THEN bytes[t][l] ELSE 0)
  /\ mine[t]["perUrl"][l] =
       mine[t]["perRef"][l] + (IF pc[t] = "refer" /\ l = <<file[t], line[t]>> THEN 1 ELSE 0)

BalanceInv == faults = 0 => \A t \in Threads, l \in Lines : Balanced(t, l)

\* The thread merges: of line l the report's maps lack what it has still to add.
Agreed(t, l) ==
  /\ report["served"][l] =
       report["perUrl"][l] + (IF field[t] = "perUrl" THEN mine[t]["served"][l] ELSE 0)
  /\ report["served"][l] =
       report["perRef"][l] +
         (IF field[t] \in {"perUrl", "perRef"} THEN mine[t]["served"][l] ELSE 0)

\* A thread is adding its numbers to the report.
Merging(t) == pc[t] \in {"load", "store"}

AgreeInv ==
  faults = 0 =>
    /\ \A t \in Threads, l \in Lines : Merging(t) => Agreed(t, l)
    /\ (\A t \in Threads : ~Merging(t)) =>
         \A l \in Lines : /\ report["served"][l] = report["perUrl"][l]
                         /\ report["served"][l] = report["perRef"][l]

\* A step never takes a failure back.
LEMMA FaultsGrow ==
  ASSUME TypeOK, [Next]_vars
  PROVE  faults \in Nat /\ faults' \in Nat /\ faults' >= faults
<1> USE DEF threadVars, mainVars
<1>1. faults \in Nat
  <2>1. faults \in 0..MaxFaults
    BY DEF TypeOK
  <2> QED BY <2>1, FaultsAssumption
<1>2. CASE \E n \in Nat : Fail(n)
  BY <1>1, <1>2 DEF Fail
<1>3. CASE faults' = faults
  BY <1>1, <1>3
<1>4. ASSUME NEW t \in Threads, StoreUrls(t) \/ StoreReferers(t)
      PROVE  \E n \in Nat : Fail(n)
  <2>1. PICK x \in Fields : \E dropped \in SUBSET NewKeys(t, x) : Fail(Cardinality(dropped))
    BY <1>4, FieldMembers DEF StoreUrls, StoreReferers
  <2>2. PICK dropped \in SUBSET NewKeys(t, x) : Fail(Cardinality(dropped))
    BY <2>1
  <2>3. Cardinality(dropped) \in Nat
    BY KeysFinite DEF NewKeys
  <2> QED BY <2>2, <2>3
<1>5. ASSUME NEW t \in Threads, ThreadStep(t) \/ CreateThread(t)
      PROVE  faults' = faults \/ \E n \in Nat : Fail(n)
  BY <1>4, <1>5 DEF ThreadStep, GetNextFile, ScanFile, UpdateReport, CreateThread,
    GetLock, ListEmpty, CopyName, CopyNameNoMemory, PopName, OpenFile, ScanFails, ScanUrl,
    ScanReferer, SkipLine, EndOfFile, UpdateLock, Load, StoreTotal, UpdateUnlock, TouchFreed
<1>6. ASSUME MainStep, ~(\E t \in Threads : CreateThread(t))
      PROVE  faults' = faults \/ \E n \in Nat : Fail(n)
  BY <1>6 DEF MainStep, AddFile, Listed, Created, MainFails, Join, PrintReport, CleanUp, Exit
<1>7. faults' = faults \/ \E n \in Nat : Fail(n)
  BY <1>5, <1>6 DEF Next, Ended, vars
<1> QED BY <1>2, <1>3, <1>7

\* Only a thread that main() did not join runs into the freed report.
LEMMA FreedUnderFailure ==
  ASSUME TypeOK, MainInv, NEW t \in Threads, TouchFreed(t)
  PROVE  exit_code = 1
BY DEF MainInv, TouchFreed, Freed, AtReport

\* Every step keeps what main() knows of its own failures.
LEMMA NextExit ==
  ASSUME TypeOK, MainInv, ExitInv, [Next]_vars
  PROVE  ExitInv'
<1> USE DEF threadVars, mainVars
<1>0. faults \in Nat /\ faults' \in Nat /\ faults' >= faults
  BY FaultsGrow
<1>1. ASSUME NEW t \in Threads, GetLock(t) PROVE ExitInv'
  BY <1>1, <1>0 DEF GetLock, ExitInv
<1>2. ASSUME NEW t \in Threads, ListEmpty(t) PROVE ExitInv'
  BY <1>2, <1>0 DEF ListEmpty, ExitInv
<1>3. ASSUME NEW t \in Threads, CopyName(t) PROVE ExitInv'
  BY <1>3, <1>0 DEF CopyName, ExitInv
<1>4. ASSUME NEW t \in Threads, CopyNameNoMemory(t) PROVE ExitInv'
  BY <1>4, <1>0 DEF CopyNameNoMemory, ExitInv
<1>5. ASSUME NEW t \in Threads, PopName(t) PROVE ExitInv'
  BY <1>5, <1>0 DEF PopName, ExitInv
<1>6. ASSUME NEW t \in Threads, OpenFile(t) PROVE ExitInv'
  BY <1>6, <1>0 DEF OpenFile, ExitInv
<1>7. ASSUME NEW t \in Threads, ScanFails(t) PROVE ExitInv'
  BY <1>7, <1>0 DEF ScanFails, ExitInv
<1>8. ASSUME NEW t \in Threads, ScanUrl(t) PROVE ExitInv'
  BY <1>8, <1>0 DEF ScanUrl, ExitInv
<1>9. ASSUME NEW t \in Threads, ScanReferer(t) PROVE ExitInv'
  BY <1>9, <1>0 DEF ScanReferer, ExitInv
<1>10. ASSUME NEW t \in Threads, SkipLine(t) PROVE ExitInv'
  BY <1>10, <1>0 DEF SkipLine, ExitInv
<1>11. ASSUME NEW t \in Threads, EndOfFile(t) PROVE ExitInv'
  BY <1>11, <1>0 DEF EndOfFile, ExitInv
<1>12. ASSUME NEW t \in Threads, UpdateLock(t) PROVE ExitInv'
  BY <1>12, <1>0 DEF UpdateLock, ExitInv
<1>13. ASSUME NEW t \in Threads, Load(t) PROVE ExitInv'
  BY <1>13, <1>0 DEF Load, ExitInv
<1>14. ASSUME NEW t \in Threads, StoreTotal(t) PROVE ExitInv'
  BY <1>14, <1>0 DEF StoreTotal, ExitInv
<1>15. ASSUME NEW t \in Threads, StoreUrls(t) PROVE ExitInv'
  BY <1>15, <1>0 DEF StoreUrls, ExitInv
<1>16. ASSUME NEW t \in Threads, StoreReferers(t) PROVE ExitInv'
  BY <1>16, <1>0 DEF StoreReferers, ExitInv
<1>17. ASSUME NEW t \in Threads, UpdateUnlock(t) PROVE ExitInv'
  BY <1>17, <1>0 DEF UpdateUnlock, ExitInv
<1>18. ASSUME NEW t \in Threads, TouchFreed(t) PROVE ExitInv'
  BY <1>18, <1>0 DEF TouchFreed, ExitInv
<1>19. ASSUME NEW t \in Threads, CreateThread(t) PROVE ExitInv'
  BY <1>19, <1>0 DEF CreateThread, ExitInv
<1>20. CASE AddFile
  BY <1>20, <1>0 DEF AddFile, TypeOK, ExitInv
<1>21. CASE Listed
  BY <1>21, <1>0 DEF Listed, TypeOK, ExitInv
<1>22. CASE Created
  BY <1>22, <1>0 DEF Created, TypeOK, ExitInv
<1>23. CASE MainFails
  <2>1. faults' > 0 /\ exit_code' = 1 /\ main' = "cleanup" /\ output' = "nothing"
    BY <1>23, <1>0 DEF MainFails, ExitInv, Fail
  <2> QED BY <2>1 DEF ExitInv
<1>24. CASE Join
  BY <1>24, <1>0 DEF Join, TypeOK, ExitInv
<1>25. CASE PrintReport
  BY <1>25, <1>0 DEF PrintReport, TypeOK, ExitInv
<1>26. CASE CleanUp
  BY <1>26, <1>0 DEF CleanUp, TypeOK, ExitInv
<1>27. CASE Exit
  BY <1>27, <1>0 DEF Exit, TypeOK, ExitInv
<1>28. CASE UNCHANGED vars
  BY <1>28, <1>0 DEF vars, TypeOK, ExitInv
<1> QED BY <1>1, <1>2, <1>3, <1>4, <1>5, <1>6, <1>7, <1>8, <1>9, <1>10, <1>11, <1>12, <1>13, <1>14,
  <1>15, <1>16, <1>17, <1>18, <1>19, <1>20, <1>21, <1>22, <1>23, <1>24, <1>25, <1>26, <1>27, <1>28
  DEF Next, MainStep, ThreadStep, GetNextFile, ScanFile, UpdateReport, Ended

\* While nothing fails, a store adds all the thread has of the field, and no key is dropped.
LEMMA StoreAll ==
  ASSUME TypeOK, LockInv, faults \in Nat, faults' = 0, NEW t \in Threads, Stores(t)
  PROVE  /\ \A l \in Lines : report'[field[t]][l] = report[field[t]][l] + mine[t][field[t]][l]
         /\ \A x \in Fields \ {field[t]} : report'[x] = report[x]
<1> DEFINE x == field[t]
<1>1. x \in Fields /\ loaded[t] = report[x] /\ pc[t] = "store"
  BY StoreMove, StoreAdds DEF LockInv
<1>2. mine[t][x] \in Bags /\ loaded[t] \in Bags
  BY <1>1, ValueType
<1>3. report' = [report EXCEPT ![x] = Plus(loaded[t], mine[t][x])]
  <2>1. CASE StoreTotal(t)
    BY <2>1 DEF StoreTotal
  <2>2. CASE StoreUrls(t) \/ StoreReferers(t)
    <3>1. PICK dropped \in SUBSET NewKeys(t, x) :
            /\ Fail(Cardinality(dropped))
            /\ report' = [report EXCEPT ![x] = Merged(t, x, dropped)]
      BY <2>2 DEF StoreUrls, StoreReferers
    <3>2. IsFiniteSet(dropped) /\ Cardinality(dropped) \in Nat
      BY <1>1, KeysFinite DEF NewKeys
    <3>3. Cardinality(dropped) = 0
      BY <3>1, <3>2 DEF Fail
    <3>4. dropped = {}
      BY <3>2, <3>3, FS_EmptySet
    <3>5. Merged(t, x, {}) = Plus(loaded[t], [l \in Lines |-> mine[t][x][l]])
      BY DEF Merged
    <3>6. mine[t][x] = [l \in Lines |-> mine[t][x][l]]
      BY <1>2 DEF Bags
    <3> QED BY <3>1, <3>4, <3>5, <3>6
  <2> QED BY <2>1, <2>2 DEF Stores
<1>4. Plus(loaded[t], mine[t][x]) \in Bags
  BY <1>2, BagType
<1> HIDE DEF x
<1>5. report'[x] = Plus(loaded[t], mine[t][x]) /\ \A y \in Fields \ {x} : report'[y] = report[y]
  BY <1>1, <1>3, <1>4, ReportWrite
<1>6. \A l \in Lines : report'[x][l] = report[x][l] + mine[t][x][l]
  BY <1>1, <1>2, <1>5, BagValues
<1> QED BY <1>5, <1>6 DEF x

\* While nothing fails, a thread's maps and its byte count go along with each other.
LEMMA NextBalance ==
  ASSUME Inv, BalanceInv, [Next]_vars, faults' = 0
  PROVE  \A u \in Threads, l \in Lines : Balanced(u, l)'
<1> USE DEF threadVars, mainVars
<1> USE DEF Inv
<1>0. faults = 0 /\ \A u \in Threads, l \in Lines : Balanced(u, l)
  BY FaultsGrow DEF BalanceInv
<1>1. ASSUME NEW t \in Threads, GetLock(t) PROVE \A u \in Threads, l \in Lines : Balanced(u, l)'
  BY <1>1, <1>0 DEF GetLock, Goto, TypeOK, Balanced
<1>2. ASSUME NEW t \in Threads, ListEmpty(t) PROVE \A u \in Threads, l \in Lines : Balanced(u, l)'
  BY <1>2, <1>0 DEF ListEmpty, Goto, AfterNull, TypeOK, Balanced
<1>3. ASSUME NEW t \in Threads, CopyName(t) PROVE \A u \in Threads, l \in Lines : Balanced(u, l)'
  BY <1>3, <1>0 DEF CopyName, Goto, TypeOK, Balanced
<1>4. ASSUME NEW t \in Threads, CopyNameNoMemory(t) PROVE \A u \in Threads, l \in Lines : Balanced(u, l)'
  BY <1>4, <1>0 DEF CopyNameNoMemory, Fail
<1>5. ASSUME NEW t \in Threads, PopName(t) PROVE \A u \in Threads, l \in Lines : Balanced(u, l)'
  BY <1>5, <1>0 DEF PopName, Goto, TypeOK, Balanced
<1>6. ASSUME NEW t \in Threads, OpenFile(t) PROVE \A u \in Threads, l \in Lines : Balanced(u, l)'
  <2>1. pc[t] = "open" /\ pc'[t] = "scan" /\ bytes'[t] = Zero
    BY <1>6 DEF OpenFile, Goto, TypeOK
  <2>2. \A l \in Lines : Balanced(t, l)'
    <3>1. ASSUME NEW l \in Lines PROVE Balanced(t, l)'
      <4>1. mine'[t] = mine[t] /\ mine[t]["served"][l] \in Nat
        BY <1>6, ValueType, BagValues, FieldMembers DEF OpenFile
      <4> QED BY <1>0, <2>1, <4>1, BagValues DEF Balanced
    <3> QED BY <3>1
  <2>3. \A u \in Threads \ {t}, l \in Lines : Balanced(u, l)'
    BY <1>6, <1>0 DEF OpenFile, Goto, TypeOK, Balanced
  <2> QED BY <2>2, <2>3
<1>7. ASSUME NEW t \in Threads, ScanFails(t) PROVE \A u \in Threads, l \in Lines : Balanced(u, l)'
  BY <1>7, <1>0 DEF ScanFails, Fail
<1>8. ASSUME NEW t \in Threads, ScanUrl(t) PROVE \A u \in Threads, l \in Lines : Balanced(u, l)'
  <2> DEFINE k == <<file[t], line[t]>>
  <2>1. ASSUME NEW l \in Lines PROVE Balanced(t, l)'
    <3>1. /\ mine'[t]["perUrl"] = AddLine(mine[t]["perUrl"], k)
          /\ mine'[t]["served"] = mine[t]["served"] /\ mine'[t]["perRef"] = mine[t]["perRef"]
          /\ bytes'[t] = AddLine(bytes[t], k) /\ k \in Lines
      BY <1>8, ScanUrlWrite, FieldNames
    <3>2. /\ mine'[t]["perUrl"][l] = IF l = k THEN mine[t]["perUrl"][l] + 1 ELSE mine[t]["perUrl"][l]
          /\ bytes'[t][l] = IF l = k THEN bytes[t][l] + 1 ELSE bytes[t][l]
          /\ mine[t]["perUrl"][l] \in Nat /\ mine[t]["perRef"][l] \in Nat
          /\ mine[t]["served"][l] \in Nat /\ bytes[t][l] \in Nat
      BY <3>1, ValueType, BagValues, FieldMembers
    <3>3. /\ pc[t] = "scan" /\ pc'[t] = "refer" /\ file'[t] = file[t] /\ line'[t] = line[t]
      BY <1>8 DEF ScanUrl, Goto, TypeOK
    <3>4. /\ mine[t]["perUrl"][l] = mine[t]["served"][l] + bytes[t][l]
          /\ mine[t]["perUrl"][l] = mine[t]["perRef"][l]
      BY <1>0, <3>2, <3>3 DEF Balanced
    <3> QED BY <3>1, <3>2, <3>3, <3>4 DEF Balanced
  <2>2. ASSUME NEW u \in Threads \ {t}, NEW l \in Lines PROVE Balanced(u, l)'
    <3>1. mine'[u] = mine[u] /\ bytes'[u] = bytes[u]
      BY <1>8, ScanUrlWrite
    <3> QED BY <1>8, <1>0, <3>1 DEF ScanUrl, Goto, TypeOK, Balanced
  <2> QED BY <2>1, <2>2
<1>9. ASSUME NEW t \in Threads, ScanReferer(t) PROVE \A u \in Threads, l \in Lines : Balanced(u, l)'
  <2> DEFINE k == <<file[t], line[t]>>
  <2>1. ASSUME NEW l \in Lines PROVE Balanced(t, l)'
    <3>1. /\ mine'[t]["perRef"] = AddLine(mine[t]["perRef"], k)
          /\ mine'[t]["served"] = mine[t]["served"] /\ mine'[t]["perUrl"] = mine[t]["perUrl"]
          /\ k \in Lines
      BY <1>9, ScanRefererWrite, FieldNames
    <3>2. /\ mine'[t]["perRef"][l] = IF l = k THEN mine[t]["perRef"][l] + 1 ELSE mine[t]["perRef"][l]
          /\ mine[t]["perRef"][l] \in Nat
      BY <3>1, ValueType, BagValues, FieldMembers
    <3>3. pc[t] = "refer" /\ pc'[t] = "scan" /\ bytes' = bytes
      BY <1>9 DEF ScanReferer, Goto, TypeOK
    <3>4. /\ mine[t]["perUrl"][l] = mine[t]["served"][l] + bytes[t][l]
          /\ mine[t]["perUrl"][l] = mine[t]["perRef"][l] + (IF l = k THEN 1 ELSE 0)
      BY <1>0, <3>3 DEF Balanced
    <3> QED BY <3>1, <3>2, <3>3, <3>4 DEF Balanced
  <2>2. ASSUME NEW u \in Threads \ {t}, NEW l \in Lines PROVE Balanced(u, l)'
    <3>1. mine'[u] = mine[u]
      BY <1>9, ScanRefererWrite
    <3> QED BY <1>9, <1>0, <3>1 DEF ScanReferer, Goto, TypeOK, Balanced
  <2> QED BY <2>1, <2>2
<1>10. ASSUME NEW t \in Threads, SkipLine(t) PROVE \A u \in Threads, l \in Lines : Balanced(u, l)'
  BY <1>10, <1>0 DEF SkipLine, Goto, TypeOK, Balanced
<1>11. ASSUME NEW t \in Threads, EndOfFile(t) PROVE \A u \in Threads, l \in Lines : Balanced(u, l)'
  <2>1. ASSUME NEW l \in Lines PROVE Balanced(t, l)'
    <3>1. /\ mine'[t]["served"] = Plus(mine[t]["served"], bytes[t])
          /\ mine'[t]["perUrl"] = mine[t]["perUrl"] /\ mine'[t]["perRef"] = mine[t]["perRef"]
      BY <1>11, EndOfFileWrite, FieldNames
    <3>2. /\ mine'[t]["served"][l] = mine[t]["served"][l] + bytes[t][l]
          /\ mine[t]["perRef"][l] \in Nat
      BY <3>1, ValueType, BagValues, FieldMembers
    <3>3. pc[t] = "scan" /\ pc'[t] = "get"
      BY <1>11 DEF EndOfFile, Goto, TypeOK
    <3>4. /\ mine[t]["perUrl"][l] = mine[t]["served"][l] + bytes[t][l]
          /\ mine[t]["perUrl"][l] = mine[t]["perRef"][l]
      BY <1>0, <3>2, <3>3 DEF Balanced
    <3> QED BY <3>1, <3>2, <3>3, <3>4 DEF Balanced
  <2>2. ASSUME NEW u \in Threads \ {t}, NEW l \in Lines PROVE Balanced(u, l)'
    <3>1. mine'[u] = mine[u]
      BY <1>11, EndOfFileWrite
    <3> QED BY <1>11, <1>0, <3>1 DEF EndOfFile, Goto, TypeOK, Balanced
  <2> QED BY <2>1, <2>2
<1>12. ASSUME NEW t \in Threads, UpdateLock(t) PROVE \A u \in Threads, l \in Lines : Balanced(u, l)'
  BY <1>12, <1>0 DEF UpdateLock, Goto, TypeOK, Balanced
<1>13. ASSUME NEW t \in Threads, Load(t) PROVE \A u \in Threads, l \in Lines : Balanced(u, l)'
  BY <1>13, <1>0 DEF Load, Goto, TypeOK, Balanced
<1>14. ASSUME NEW t \in Threads, StoreTotal(t) PROVE \A u \in Threads, l \in Lines : Balanced(u, l)'
  BY <1>14, <1>0, StoreMove DEF Stores, Balanced, Inv
<1>15. ASSUME NEW t \in Threads, StoreUrls(t) PROVE \A u \in Threads, l \in Lines : Balanced(u, l)'
  BY <1>15, <1>0, StoreMove DEF Stores, Balanced, Inv
<1>16. ASSUME NEW t \in Threads, StoreReferers(t) PROVE \A u \in Threads, l \in Lines : Balanced(u, l)'
  BY <1>16, <1>0, StoreMove DEF Stores, Balanced, Inv
<1>17. ASSUME NEW t \in Threads, UpdateUnlock(t) PROVE \A u \in Threads, l \in Lines : Balanced(u, l)'
  <2>1. /\ mine'[t] = EmptyReport /\ pc'[t] = "done"
        /\ \A u \in Threads \ {t} : mine'[u] = mine[u] /\ pc'[u] = pc[u]
        /\ bytes' = bytes /\ file' = file /\ line' = line
    BY <1>17 DEF UpdateUnlock, Goto, TypeOK
  <2>2. \A l \in Lines : Balanced(t, l)'
    BY <2>1, BagValues, FieldMembers DEF Balanced
  <2> QED BY <1>0, <2>1, <2>2 DEF Balanced
<1>18. ASSUME NEW t \in Threads, TouchFreed(t) PROVE \A u \in Threads, l \in Lines : Balanced(u, l)'
  BY <1>18, <1>0 DEF TouchFreed, AtReport, Freed, TypeOK, Balanced
<1>19. ASSUME NEW t \in Threads, CreateThread(t) PROVE \A u \in Threads, l \in Lines : Balanced(u, l)'
  BY <1>19, <1>0 DEF CreateThread, Goto, TypeOK, Balanced
<1>20. CASE AddFile
  BY <1>20, <1>0 DEF AddFile, TypeOK, Balanced
<1>21. CASE Quiet
  BY <1>21, <1>0 DEF Quiet, TypeOK, Balanced
<1> QED BY <1>1, <1>2, <1>3, <1>4, <1>5, <1>6, <1>7, <1>8, <1>9, <1>10, <1>11, <1>12, <1>13, <1>14,
  <1>15, <1>16, <1>17, <1>18, <1>19, <1>20, <1>21, NextCases
  DEF ThreadStep, GetNextFile, ScanFile, UpdateReport

\* A step that adds nothing to the report and starts or ends no merge keeps the fields in step.
LEMMA AgreeFrame ==
  ASSUME AgreeInv, faults = 0, report' = report,
         \A t \in Threads : /\ Merging(t)' <=> Merging(t)
                            /\ Merging(t) => field'[t] = field[t] /\ mine'[t] = mine[t]
  PROVE  AgreeInv'
<1>1. ASSUME NEW t \in Threads, NEW l \in Lines, Merging(t)'
      PROVE  Agreed(t, l)'
  BY <1>1 DEF AgreeInv, Agreed
<1>2. ASSUME \A t \in Threads : ~Merging(t)', NEW l \in Lines
      PROVE  /\ report'["served"][l] = report'["perUrl"][l]
             /\ report'["served"][l] = report'["perRef"][l]
  BY <1>2 DEF AgreeInv
<1> QED BY <1>1, <1>2 DEF AgreeInv

\* What a thread that merges has still to add to the maps is what it has added to the
\* total, as long as nothing failed in its files.
LEMMA AgreeAtStore ==
  ASSUME Inv, BalanceInv, AgreeInv, faults = 0, faults' = 0, NEW t \in Threads, Stores(t),
         field[t] = "served" => field'[t] = "perUrl" /\ Merging(t)',
         field[t] = "perUrl" => field'[t] = "perRef" /\ Merging(t)',
         field[t] = "perRef" => ~Merging(t)'
  PROVE  AgreeInv'
<1> DEFINE x == field[t]
<1>1. /\ pc[t] = "store" /\ x \in Fields /\ mine' = mine
      /\ \A u \in Threads \ {t} : pc'[u] = pc[u]
  BY StoreMove, StoreAdds DEF Inv
<1>2. \A u \in Threads \ {t} : ~Merging(u)'
  BY <1>1 DEF Inv, LockInv, Locked, Merging
<1>3. ASSUME NEW l \in Lines
      PROVE  /\ mine[t]["perUrl"][l] = mine[t]["served"][l]
             /\ mine[t]["perRef"][l] = mine[t]["served"][l]
             /\ report["served"][l] =
                  report["perUrl"][l] + (IF x = "perUrl" THEN mine[t]["served"][l] ELSE 0)
             /\ report["served"][l] =
                  report["perRef"][l] + (IF x \in {"perUrl", "perRef"} THEN mine[t]["served"][l] ELSE 0)
             /\ report'[x][l] = report[x][l] + mine[t][x][l]
             /\ \A y \in Fields \ {x} : report'[y][l] = report[y][l]
             /\ \A y \in Fields : report[y][l] \in Nat /\ mine[t][y][l] \in Nat
  <2>1. Balanced(t, l) /\ Agreed(t, l)
    BY <1>1 DEF BalanceInv, AgreeInv, Merging
  <2>2. \A y \in Fields : report[y][l] \in Nat /\ mine[t][y][l] \in Nat
    BY ValueType, BagValues DEF Inv
  <2>3. /\ mine[t]["perUrl"][l] = mine[t]["served"][l]
        /\ mine[t]["perRef"][l] = mine[t]["served"][l]
    BY <1>1, <2>1, <2>2, FieldMembers DEF Balanced
  <2> QED BY <2>1, <2>2, <2>3, StoreAll DEF Inv, Agreed
<1> HIDE DEF x
<1>4. CASE x = "served"
  <2>1. ASSUME NEW l \in Lines PROVE Agreed(t, l)'
    BY <1>1, <1>3, <1>4, FieldNames DEF x, Agreed
  <2> QED BY <1>2, <1>4, <2>1 DEF x, AgreeInv
<1>5. CASE x = "perUrl"
  <2>1. ASSUME NEW l \in Lines PROVE Agreed(t, l)'
    BY <1>1, <1>3, <1>5, FieldNames DEF x, Agreed
  <2> QED BY <1>2, <1>5, <2>1 DEF x, AgreeInv
<1>6. CASE x = "perRef"
  <2>1. ASSUME NEW l \in Lines
        PROVE  /\ report'["served"][l] = report'["perUrl"][l]
               /\ report'["served"][l] = report'["perRef"][l]
    BY <1>3, <1>6, FieldNames
  <2>2. \A u \in Threads : ~Merging(u)'
    BY <1>2, <1>6 DEF x
  <2> QED BY <2>1, <2>2 DEF AgreeInv
<1> QED BY <1>1, <1>4, <1>5, <1>6, FieldNames

\* While nothing fails, every step keeps the report's total, URLs and referers in step.
LEMMA NextAgree ==
  ASSUME Inv, ExitInv, BalanceInv, AgreeInv, [Next]_vars, faults' = 0
  PROVE  AgreeInv'
<1> USE DEF threadVars, mainVars
<1> USE DEF Inv
<1>0. faults \in Nat /\ faults = 0
  BY FaultsGrow
<1>1. ASSUME NEW t \in Threads, GetLock(t) PROVE AgreeInv'
  BY <1>1, <1>0, AgreeFrame DEF GetLock, Goto, Merging, TypeOK
<1>2. ASSUME NEW t \in Threads, ListEmpty(t) PROVE AgreeInv'
  BY <1>2, <1>0, AgreeFrame DEF ListEmpty, Goto, AfterNull, Merging, TypeOK
<1>3. ASSUME NEW t \in Threads, CopyName(t) PROVE AgreeInv'
  BY <1>3, <1>0, AgreeFrame DEF CopyName, Goto, Merging, TypeOK
<1>4. ASSUME NEW t \in Threads, CopyNameNoMemory(t) PROVE AgreeInv'
  BY <1>4, <1>0 DEF CopyNameNoMemory, Fail
<1>5. ASSUME NEW t \in Threads, PopName(t) PROVE AgreeInv'
  BY <1>5, <1>0, AgreeFrame DEF PopName, Goto, Merging, TypeOK
<1>6. ASSUME NEW t \in Threads, OpenFile(t) PROVE AgreeInv'
  BY <1>6, <1>0, AgreeFrame DEF OpenFile, Goto, Merging, TypeOK
<1>7. ASSUME NEW t \in Threads, ScanFails(t) PROVE AgreeInv'
  BY <1>7, <1>0 DEF ScanFails, Fail
<1>8. ASSUME NEW t \in Threads, ScanUrl(t) PROVE AgreeInv'
  <2>1. /\ \A u \in Threads \ {t} : mine'[u] = mine[u]
        /\ ~Merging(t) /\ ~Merging(t)' /\ \A u \in Threads \ {t} : pc'[u] = pc[u]
    BY <1>8, ScanUrlWrite DEF ScanUrl, Goto, TypeOK, Merging
  <2> QED BY <1>8, <1>0, <2>1, AgreeFrame DEF ScanUrl, Merging
<1>9. ASSUME NEW t \in Threads, ScanReferer(t) PROVE AgreeInv'
  <2>1. /\ \A u \in Threads \ {t} : mine'[u] = mine[u]
        /\ ~Merging(t) /\ ~Merging(t)' /\ \A u \in Threads \ {t} : pc'[u] = pc[u]
    BY <1>9, ScanRefererWrite DEF ScanReferer, Goto, TypeOK, Merging
  <2> QED BY <1>9, <1>0, <2>1, AgreeFrame DEF ScanReferer, Merging
<1>10. ASSUME NEW t \in Threads, SkipLine(t) PROVE AgreeInv'
  BY <1>10, <1>0, AgreeFrame DEF SkipLine, Goto, Merging, TypeOK
<1>11. ASSUME NEW t \in Threads, EndOfFile(t) PROVE AgreeInv'
  <2>1. /\ \A u \in Threads \ {t} : mine'[u] = mine[u]
        /\ ~Merging(t) /\ ~Merging(t)' /\ \A u \in Threads \ {t} : pc'[u] = pc[u]
    BY <1>11, EndOfFileWrite DEF EndOfFile, Goto, TypeOK, Merging
  <2> QED BY <1>11, <1>0, <2>1, AgreeFrame DEF EndOfFile, Merging
<1>12. ASSUME NEW t \in Threads, UpdateLock(t) PROVE AgreeInv'
  <2>1. /\ \A u \in Threads : ~Merging(u)
        /\ field'[t] = "served" /\ report' = report
        /\ \A u \in Threads \ {t} : ~Merging(u)'
    BY <1>12, ThreadsAssumption DEF UpdateLock, Goto, TypeOK, LockInv, Locked, Merging
  <2>2. ASSUME NEW l \in Lines PROVE Agreed(t, l)'
    <3>1. report["served"][l] \in Nat /\ report["perUrl"][l] \in Nat /\ report["perRef"][l] \in Nat
      BY ValueType, BagValues, FieldMembers
    <3> QED BY <1>0, <2>1, <3>1 DEF AgreeInv, Agreed
  <2>3. Merging(t)'
    BY <1>12 DEF UpdateLock, Goto, TypeOK, Merging
  <2> QED BY <2>1, <2>2, <2>3 DEF AgreeInv
<1>13. ASSUME NEW t \in Threads, Load(t) PROVE AgreeInv'
  BY <1>13, <1>0, AgreeFrame DEF Load, Goto, Merging, TypeOK
<1>14. ASSUME NEW t \in Threads, StoreTotal(t) PROVE AgreeInv'
  <2>1. Stores(t) /\ field[t] = "served" /\ field'[t] = "perUrl" /\ Merging(t)'
    BY <1>14 DEF Stores, StoreTotal, Goto, TypeOK, Merging
  <2> QED BY <1>0, <2>1, AgreeAtStore
<1>15. ASSUME NEW t \in Threads, StoreUrls(t) PROVE AgreeInv'
  <2>1. Stores(t) /\ field[t] = "perUrl" /\ field'[t] = "perRef" /\ Merging(t)'
    BY <1>15 DEF Stores, StoreUrls, Goto, TypeOK, Merging
  <2> QED BY <1>0, <2>1, AgreeAtStore
<1>16. ASSUME NEW t \in Threads, StoreReferers(t) PROVE AgreeInv'
  <2>1. Stores(t) /\ field[t] = "perRef" /\ ~Merging(t)'
    BY <1>16 DEF Stores, StoreReferers, Goto, TypeOK, Merging
  <2> QED BY <1>0, <2>1, AgreeAtStore
<1>17. ASSUME NEW t \in Threads, UpdateUnlock(t) PROVE AgreeInv'
  <2>1. /\ \A u \in Threads \ {t} : mine'[u] = mine[u] /\ pc'[u] = pc[u]
        /\ ~Merging(t) /\ ~Merging(t)'
    BY <1>17 DEF UpdateUnlock, Goto, TypeOK, Merging
  <2> QED BY <1>17, <1>0, <2>1, AgreeFrame DEF UpdateUnlock, Merging
<1>18. ASSUME NEW t \in Threads, TouchFreed(t) PROVE AgreeInv'
  BY <1>18, <1>0, FreedUnderFailure DEF ExitInv
<1>19. ASSUME NEW t \in Threads, CreateThread(t) PROVE AgreeInv'
  BY <1>19, <1>0, AgreeFrame DEF CreateThread, Goto, Merging, TypeOK
<1>20. CASE AddFile
  BY <1>20, <1>0, AgreeFrame DEF AddFile, Merging
<1>21. CASE Quiet
  BY <1>21, <1>0, AgreeFrame DEF Quiet, Merging
<1> QED BY <1>1, <1>2, <1>3, <1>4, <1>5, <1>6, <1>7, <1>8, <1>9, <1>10, <1>11, <1>12, <1>13, <1>14,
  <1>15, <1>16, <1>17, <1>18, <1>19, <1>20, <1>21, NextCases
  DEF ThreadStep, GetNextFile, ScanFile, UpdateReport

----------------------------------------------------------------------------
(* A file is lost by a call that failed: the invariant of LossBounded *)

\* Line l is in no total, neither a thread's nor the report's.
Uncounted(l) == report["served"][l] = 0 /\ \A t \in Threads : mine[t]["served"][l] = 0

\* The files that were taken off the list and not counted in full.
Lost ==
  { f \in Files : /\ f \notin Range(files)
                  /\ \A t \in Threads : ~Scanning(t, f)
                  /\ \E l \in HitsOf(f) : Uncounted(l) }

LostInv == main # "list" /\ exit_code = 0 => Cardinality(Lost) <= faults

\* What a thread has added to the total is in it when the thread forgets it.
MergedInv ==
  \A t \in Threads, l \in Lines :
    Added(t, "served") => mine[t]["served"][l] <= report["served"][l]

\* A thread that has merged all it has scanned, or never had a file, has nothing.
DoneInv ==
  \A t \in Threads : file[t] = NoFile \/ pc[t] = "done" => mine[t] = EmptyReport

\* A thread leaves its loop when the list is empty, or leaves the mutex locked.
EmptyInv ==
  exit_code = 0 =>
    \A t \in Threads : pc[t] \in {"update", "load", "store", "unlock", "done"} =>
                        files = <<>> \/ LockLeaked

\* The invariant of all that the report has, and has not.
WholeTruth ==
  Inv /\ ExitInv /\ BalanceInv /\ AgreeInv /\ LostInv /\ MergedInv /\ DoneInv /\ EmptyInv

\* Every step keeps the threads that are done empty-handed.
LEMMA NextDone ==
  ASSUME TypeOK, LockInv, DoneInv, [Next]_vars
  PROVE  DoneInv'
<1> USE DEF threadVars, mainVars
<1>1. ASSUME NEW t \in Threads, GetLock(t) PROVE DoneInv'
  BY <1>1 DEF GetLock, Goto, TypeOK, DoneInv
<1>2. ASSUME NEW t \in Threads, ListEmpty(t) PROVE DoneInv'
  BY <1>2 DEF ListEmpty, Goto, AfterNull, TypeOK, DoneInv
<1>3. ASSUME NEW t \in Threads, CopyName(t) PROVE DoneInv'
  <2>1. file'[t] \in Files /\ file'[t] # NoFile /\ pc'[t] = "pop" /\ mine' = mine
    BY <1>3, ListType, FilesAssumption DEF CopyName, Goto, TypeOK
  <2> QED BY <1>3, <2>1 DEF CopyName, Goto, TypeOK, DoneInv
<1>4. ASSUME NEW t \in Threads, CopyNameNoMemory(t) PROVE DoneInv'
  BY <1>4 DEF CopyNameNoMemory, Goto, AfterNull, TypeOK, DoneInv
<1>5. ASSUME NEW t \in Threads, PopName(t) PROVE DoneInv'
  BY <1>5 DEF PopName, Goto, TypeOK, DoneInv
<1>6. ASSUME NEW t \in Threads, OpenFile(t) PROVE DoneInv'
  BY <1>6 DEF OpenFile, Goto, TypeOK, DoneInv
<1>7. ASSUME NEW t \in Threads, ScanFails(t) PROVE DoneInv'
  BY <1>7 DEF ScanFails, Goto, TypeOK, DoneInv
<1>8. ASSUME NEW t \in Threads, ScanUrl(t) PROVE DoneInv'
  <2>1. file[t] # NoFile /\ pc'[t] = "refer" /\ \A u \in Threads \ {t} : mine'[u] = mine[u]
    <3>1. pc[t] \in {"scan", "refer"} /\ pc'[t] = "refer"
      BY <1>8 DEF ScanUrl, Goto, TypeOK
    <3> QED BY <1>8, <3>1, LineOfFile, ScanUrlWrite, FilesAssumption
  <2> QED BY <1>8, <2>1 DEF ScanUrl, Goto, TypeOK, DoneInv
<1>9. ASSUME NEW t \in Threads, ScanReferer(t) PROVE DoneInv'
  <2>1. file[t] # NoFile /\ pc'[t] = "scan" /\ \A u \in Threads \ {t} : mine'[u] = mine[u]
    <3>1. pc[t] \in {"scan", "refer"} /\ pc'[t] = "scan"
      BY <1>9 DEF ScanReferer, Goto, TypeOK
    <3> QED BY <1>9, <3>1, LineOfFile, ScanRefererWrite, FilesAssumption
  <2> QED BY <1>9, <2>1 DEF ScanReferer, Goto, TypeOK, DoneInv
<1>10. ASSUME NEW t \in Threads, SkipLine(t) PROVE DoneInv'
  BY <1>10 DEF SkipLine, Goto, TypeOK, DoneInv
<1>11. ASSUME NEW t \in Threads, EndOfFile(t) PROVE DoneInv'
  <2>1. file[t] # NoFile /\ pc'[t] = "get" /\ \A u \in Threads \ {t} : mine'[u] = mine[u]
    <3>1. pc[t] \in {"scan", "refer"} /\ pc'[t] = "get"
      BY <1>11 DEF EndOfFile, Goto, TypeOK
    <3> QED BY <1>11, <3>1, LineOfFile, EndOfFileWrite, FilesAssumption
  <2> QED BY <1>11, <2>1 DEF EndOfFile, Goto, TypeOK, DoneInv
<1>12. ASSUME NEW t \in Threads, UpdateLock(t) PROVE DoneInv'
  BY <1>12 DEF UpdateLock, Goto, TypeOK, DoneInv
<1>13. ASSUME NEW t \in Threads, Load(t) PROVE DoneInv'
  BY <1>13 DEF Load, Goto, TypeOK, DoneInv
<1>14. ASSUME NEW t \in Threads, StoreTotal(t) PROVE DoneInv'
  BY <1>14, StoreMove DEF Stores, DoneInv
<1>15. ASSUME NEW t \in Threads, StoreUrls(t) PROVE DoneInv'
  BY <1>15, StoreMove DEF Stores, DoneInv
<1>16. ASSUME NEW t \in Threads, StoreReferers(t) PROVE DoneInv'
  BY <1>16, StoreMove DEF Stores, DoneInv
<1>17. ASSUME NEW t \in Threads, UpdateUnlock(t) PROVE DoneInv'
  BY <1>17 DEF UpdateUnlock, Goto, TypeOK, DoneInv
<1>18. ASSUME NEW t \in Threads, TouchFreed(t) PROVE DoneInv'
  BY <1>18 DEF TouchFreed, AtReport, Freed, TypeOK, DoneInv
<1>19. ASSUME NEW t \in Threads, CreateThread(t) PROVE DoneInv'
  BY <1>19 DEF CreateThread, Goto, TypeOK, DoneInv
<1>20. CASE AddFile
  BY <1>20 DEF AddFile, TypeOK, DoneInv
<1>21. CASE Quiet
  BY <1>21 DEF Quiet, TypeOK, DoneInv
<1> QED BY <1>1, <1>2, <1>3, <1>4, <1>5, <1>6, <1>7, <1>8, <1>9, <1>10, <1>11, <1>12, <1>13, <1>14,
  <1>15, <1>16, <1>17, <1>18, <1>19, <1>20, <1>21, NextCases
  DEF ThreadStep, GetNextFile, ScanFile, UpdateReport

\* What a store adds to the total has the thread's lines, and no other store takes them out.
LEMMA MergedAtStore ==
  ASSUME TypeOK, LockInv, MergedInv, NEW t \in Threads, Stores(t)
  PROVE  MergedInv'
<1>1. ASSUME NEW u \in Threads, NEW l \in Lines, Added(u, "served")'
      PROVE  mine'[u]["served"][l] <= report'["served"][l]
  <2>1. /\ mine' = mine /\ report["served"][l] \in Nat /\ mine[u]["served"][l] \in Nat
        /\ report'["served"][l] \in Nat
    BY StoreMove, StoreAdds, ValueType, BagValues, FieldMembers DEF Reports
  <2>2. report'["served"][l] >= report["served"][l]
    BY <2>1, StoreAdds, FieldMembers
  <2>3. CASE Added(u, "served")
    BY <2>1, <2>2, <2>3 DEF MergedInv
  <2>4. CASE ~Added(u, "served")
    <3>1. u = t
      BY <1>1, <2>4, StoreMove DEF Added
    <3>2. StoreTotal(t)
      BY <1>1, <2>4, <3>1 DEF Stores, StoreUrls, StoreReferers, Goto, Added
    <3>3. report'["served"] = Plus(loaded[t], mine[t]["served"])
      BY <3>2 DEF StoreTotal, TypeOK, Reports, Fields
    <3>4. report'["served"][l] = loaded[t][l] + mine[t]["served"][l] /\ loaded[t][l] \in Nat
      BY <3>3, ValueType, BagValues, FieldMembers
    <3> QED BY <2>1, <3>1, <3>4
  <2> QED BY <2>3, <2>4
<1> QED BY <1>1 DEF MergedInv

\* Every step keeps what a thread has added to the total in it.
LEMMA NextMerged ==
  ASSUME TypeOK, LockInv, MergedInv, [Next]_vars
  PROVE  MergedInv'
<1> USE DEF threadVars, mainVars
<1>1. ASSUME NEW t \in Threads, GetLock(t) PROVE MergedInv'
  BY <1>1 DEF GetLock, Goto, TypeOK, MergedInv, Added
<1>2. ASSUME NEW t \in Threads, ListEmpty(t) PROVE MergedInv'
  BY <1>2 DEF ListEmpty, Goto, AfterNull, TypeOK, MergedInv, Added
<1>3. ASSUME NEW t \in Threads, CopyName(t) PROVE MergedInv'
  BY <1>3 DEF CopyName, Goto, TypeOK, MergedInv, Added
<1>4. ASSUME NEW t \in Threads, CopyNameNoMemory(t) PROVE MergedInv'
  BY <1>4 DEF CopyNameNoMemory, Goto, AfterNull, TypeOK, MergedInv, Added
<1>5. ASSUME NEW t \in Threads, PopName(t) PROVE MergedInv'
  BY <1>5 DEF PopName, Goto, TypeOK, MergedInv, Added
<1>6. ASSUME NEW t \in Threads, OpenFile(t) PROVE MergedInv'
  BY <1>6 DEF OpenFile, Goto, TypeOK, MergedInv, Added
<1>7. ASSUME NEW t \in Threads, ScanFails(t) PROVE MergedInv'
  BY <1>7 DEF ScanFails, Goto, TypeOK, MergedInv, Added
<1>8. ASSUME NEW t \in Threads, ScanUrl(t) PROVE MergedInv'
  <2>1. ~Added(t, "served")' /\ \A u \in Threads \ {t} : Added(u, "served")' => Added(u, "served")
    BY <1>8 DEF ScanUrl, Goto, TypeOK, Added
  <2>2. \A u \in Threads \ {t} : mine'[u] = mine[u]
    BY <1>8, ScanUrlWrite
  <2> QED BY <1>8, <2>1, <2>2 DEF ScanUrl, MergedInv
<1>9. ASSUME NEW t \in Threads, ScanReferer(t) PROVE MergedInv'
  <2>1. ~Added(t, "served")' /\ \A u \in Threads \ {t} : Added(u, "served")' => Added(u, "served")
    BY <1>9 DEF ScanReferer, Goto, TypeOK, Added
  <2>2. \A u \in Threads \ {t} : mine'[u] = mine[u]
    BY <1>9, ScanRefererWrite
  <2> QED BY <1>9, <2>1, <2>2 DEF ScanReferer, MergedInv
<1>10. ASSUME NEW t \in Threads, SkipLine(t) PROVE MergedInv'
  BY <1>10 DEF SkipLine, Goto, TypeOK, MergedInv, Added
<1>11. ASSUME NEW t \in Threads, EndOfFile(t) PROVE MergedInv'
  <2>1. ~Added(t, "served")' /\ \A u \in Threads \ {t} : Added(u, "served")' => Added(u, "served")
    BY <1>11 DEF EndOfFile, Goto, TypeOK, Added
  <2>2. \A u \in Threads \ {t} : mine'[u] = mine[u]
    BY <1>11, EndOfFileWrite
  <2> QED BY <1>11, <2>1, <2>2 DEF EndOfFile, MergedInv
<1>12. ASSUME NEW t \in Threads, UpdateLock(t) PROVE MergedInv'
  <2>1. ~Added(t, "served")' /\ \A u \in Threads \ {t} : Added(u, "served")' => Added(u, "served")
    BY <1>12 DEF UpdateLock, Goto, TypeOK, Added
  <2> QED BY <1>12, <2>1 DEF UpdateLock, MergedInv
<1>13. ASSUME NEW t \in Threads, Load(t) PROVE MergedInv'
  BY <1>13 DEF Load, Goto, TypeOK, MergedInv, Added
<1>14. ASSUME NEW t \in Threads, StoreTotal(t) PROVE MergedInv'
  BY <1>14, MergedAtStore DEF Stores
<1>15. ASSUME NEW t \in Threads, StoreUrls(t) PROVE MergedInv'
  BY <1>15, MergedAtStore DEF Stores
<1>16. ASSUME NEW t \in Threads, StoreReferers(t) PROVE MergedInv'
  BY <1>16, MergedAtStore DEF Stores
<1>17. ASSUME NEW t \in Threads, UpdateUnlock(t) PROVE MergedInv'
  <2>1. ~Added(t, "served")' /\ \A u \in Threads \ {t} : Added(u, "served")' => Added(u, "served")
    BY <1>17 DEF UpdateUnlock, Goto, TypeOK, Added
  <2>2. \A u \in Threads \ {t} : mine'[u] = mine[u]
    BY <1>17 DEF UpdateUnlock, TypeOK
  <2> QED BY <1>17, <2>1, <2>2 DEF UpdateUnlock, MergedInv
<1>18. ASSUME NEW t \in Threads, TouchFreed(t) PROVE MergedInv'
  BY <1>18 DEF TouchFreed, AtReport, Freed, TypeOK, MergedInv, Added
<1>19. ASSUME NEW t \in Threads, CreateThread(t) PROVE MergedInv'
  BY <1>19 DEF CreateThread, Goto, TypeOK, MergedInv, Added
<1>20. CASE AddFile
  BY <1>20 DEF AddFile, TypeOK, MergedInv, Added
<1>21. CASE Quiet
  BY <1>21 DEF Quiet, TypeOK, MergedInv, Added
<1> QED BY <1>1, <1>2, <1>3, <1>4, <1>5, <1>6, <1>7, <1>8, <1>9, <1>10, <1>11, <1>12, <1>13, <1>14,
  <1>15, <1>16, <1>17, <1>18, <1>19, <1>20, <1>21, NextCases
  DEF ThreadStep, GetNextFile, ScanFile, UpdateReport

\* A thread leaves its loop for good reason only, and the reason lasts.
LEMMA NextEmpty ==
  ASSUME TypeOK, LockInv, MainInv, EmptyInv, [Next]_vars
  PROVE  EmptyInv'
<1> USE DEF threadVars, mainVars
<1>1. ASSUME NEW t \in Threads, GetLock(t) PROVE EmptyInv'
  BY <1>1, ThreadsAssumption DEF GetLock, Goto, TypeOK, EmptyInv, LockLeaked, LockInv, Locked
<1>2. ASSUME NEW t \in Threads, ListEmpty(t) PROVE EmptyInv'
  BY <1>2, ThreadsAssumption DEF ListEmpty, Goto, AfterNull, TypeOK, EmptyInv, LockLeaked, LockInv, Locked
<1>3. ASSUME NEW t \in Threads, CopyName(t) PROVE EmptyInv'
  BY <1>3, ThreadsAssumption DEF CopyName, Goto, TypeOK, EmptyInv, LockLeaked, LockInv, Locked
<1>4. ASSUME NEW t \in Threads, CopyNameNoMemory(t) PROVE EmptyInv'
  BY <1>4, ThreadsAssumption DEF CopyNameNoMemory, Goto, AfterNull, TypeOK, EmptyInv, LockLeaked, LockInv,
    Locked
<1>5. ASSUME NEW t \in Threads, PopName(t) PROVE EmptyInv'
  BY <1>5, ThreadsAssumption DEF PopName, Goto, TypeOK, EmptyInv, LockLeaked, LockInv, Locked
<1>6. ASSUME NEW t \in Threads, OpenFile(t) PROVE EmptyInv'
  BY <1>6, ThreadsAssumption DEF OpenFile, Goto, TypeOK, EmptyInv, LockLeaked, LockInv, Locked
<1>7. ASSUME NEW t \in Threads, ScanFails(t) PROVE EmptyInv'
  BY <1>7, ThreadsAssumption DEF ScanFails, Goto, TypeOK, EmptyInv, LockLeaked, LockInv, Locked
<1>8. ASSUME NEW t \in Threads, ScanUrl(t) PROVE EmptyInv'
  BY <1>8, ThreadsAssumption DEF ScanUrl, Goto, TypeOK, EmptyInv, LockLeaked, LockInv, Locked
<1>9. ASSUME NEW t \in Threads, ScanReferer(t) PROVE EmptyInv'
  BY <1>9, ThreadsAssumption DEF ScanReferer, Goto, TypeOK, EmptyInv, LockLeaked, LockInv, Locked
<1>10. ASSUME NEW t \in Threads, SkipLine(t) PROVE EmptyInv'
  BY <1>10, ThreadsAssumption DEF SkipLine, Goto, TypeOK, EmptyInv, LockLeaked, LockInv, Locked
<1>11. ASSUME NEW t \in Threads, EndOfFile(t) PROVE EmptyInv'
  BY <1>11, ThreadsAssumption DEF EndOfFile, Goto, TypeOK, EmptyInv, LockLeaked, LockInv, Locked
<1>12. ASSUME NEW t \in Threads, UpdateLock(t) PROVE EmptyInv'
  BY <1>12, ThreadsAssumption DEF UpdateLock, Goto, TypeOK, EmptyInv, LockLeaked, LockInv, Locked
<1>13. ASSUME NEW t \in Threads, Load(t) PROVE EmptyInv'
  BY <1>13, ThreadsAssumption DEF Load, Goto, TypeOK, EmptyInv, LockLeaked, LockInv, Locked
<1>14. ASSUME NEW t \in Threads, StoreTotal(t) PROVE EmptyInv'
  BY <1>14 DEF StoreTotal, Goto, TypeOK, EmptyInv, LockLeaked, LockInv, Locked
<1>15. ASSUME NEW t \in Threads, StoreUrls(t) PROVE EmptyInv'
  BY <1>15 DEF StoreUrls, Goto, TypeOK, EmptyInv, LockLeaked, LockInv, Locked
<1>16. ASSUME NEW t \in Threads, StoreReferers(t) PROVE EmptyInv'
  BY <1>16 DEF StoreReferers, Goto, TypeOK, EmptyInv, LockLeaked, LockInv, Locked
<1>17. ASSUME NEW t \in Threads, UpdateUnlock(t) PROVE EmptyInv'
  BY <1>17, ThreadsAssumption DEF UpdateUnlock, Goto, TypeOK, EmptyInv, LockLeaked, LockInv, Locked
<1>18. ASSUME NEW t \in Threads, TouchFreed(t) PROVE EmptyInv'
  <2>1. exit_code' = 1
    BY <1>18, FreedUnderFailure DEF TouchFreed
  <2> QED BY <2>1 DEF EmptyInv
<1>19. ASSUME NEW t \in Threads, CreateThread(t) PROVE EmptyInv'
  BY <1>19, ThreadsAssumption DEF CreateThread, Goto, TypeOK, EmptyInv, LockLeaked, LockInv, Locked
<1>20. CASE AddFile
  BY <1>20 DEF AddFile, MainInv, EmptyInv
<1>21. CASE Listed
  BY <1>21, ThreadsAssumption DEF Listed, TypeOK, EmptyInv, LockLeaked, LockInv, Locked
<1>22. CASE Created
  BY <1>22, ThreadsAssumption DEF Created, TypeOK, EmptyInv, LockLeaked, LockInv, Locked
<1>23. CASE MainFails
  BY <1>23 DEF MainFails, EmptyInv
<1>24. CASE Join
  BY <1>24, ThreadsAssumption DEF Join, TypeOK, EmptyInv, LockLeaked, LockInv, Locked
<1>25. CASE PrintReport
  BY <1>25, ThreadsAssumption DEF PrintReport, TypeOK, EmptyInv, LockLeaked, LockInv, Locked
<1>26. CASE CleanUp
  BY <1>26, ThreadsAssumption DEF CleanUp, TypeOK, EmptyInv, LockLeaked, LockInv, Locked
<1>27. CASE Exit
  BY <1>27, ThreadsAssumption DEF Exit, TypeOK, EmptyInv, LockLeaked, LockInv, Locked
<1>28. CASE UNCHANGED vars
  BY <1>28, ThreadsAssumption DEF vars, TypeOK, EmptyInv, LockLeaked, LockInv, Locked
<1> QED BY <1>1, <1>2, <1>3, <1>4, <1>5, <1>6, <1>7, <1>8, <1>9, <1>10, <1>11, <1>12, <1>13, <1>14,
  <1>15, <1>16, <1>17, <1>18, <1>19, <1>20, <1>21, <1>22, <1>23, <1>24, <1>25, <1>26, <1>27, <1>28
  DEF Next, MainStep, ThreadStep, GetNextFile, ScanFile, UpdateReport, Ended

\* The lost files are finitely many.
LEMMA LostFinite == IsFiniteSet(Lost) /\ Cardinality(Lost) \in Nat
BY FilesAssumption, FS_Subset, FS_CardinalityType DEF Lost

\* A step loses no file when a file that leaves the list is scanned, and one that is no
\* longer scanned has been counted.
LEMMA LostFrame ==
  ASSUME TypeOK, LostInv, [Next]_vars, main' = main, exit_code' = exit_code,
         \A f \in Files : f \notin Range(files)' =>
           f \notin Range(files) \/ \E t \in Threads : Scanning(t, f)',
         \A t \in Threads, f \in Files : Scanning(t, f) =>
           Scanning(t, f)' \/ \A l \in HitsOf(f) : ~Uncounted(l)',
         \A l \in Lines : Uncounted(l)' => Uncounted(l)
  PROVE  LostInv'
<1>1. ASSUME NEW f \in Lost' PROVE f \in Lost
  <2>1. /\ f \in Files /\ f \notin Range(files)' /\ \A t \in Threads : ~Scanning(t, f)'
        /\ \E l \in HitsOf(f) : Uncounted(l)'
    BY DEF Lost
  <2>2. PICK l \in HitsOf(f) : Uncounted(l)'
    BY <2>1
  <2>3. l \in Lines
    BY LineType DEF HitsOf
  <2>4. f \notin Range(files) /\ \A t \in Threads : ~Scanning(t, f)
    BY <2>1, <2>2
  <2> QED BY <2>1, <2>2, <2>3, <2>4 DEF Lost
<1> DEFINE now == Lost
           next == Lost'
<1>2. IsFiniteSet(now) /\ next \subseteq now /\ Cardinality(now) \in Nat
  BY <1>1, LostFinite
<1> HIDE DEF now, next
<1>3. Cardinality(next) <= Cardinality(now) /\ Cardinality(next) \in Nat
  BY <1>2, FS_Subset, FS_CardinalityType
<1>4. faults \in Nat /\ faults' \in Nat /\ faults' >= faults
  BY FaultsGrow
<1>5. ASSUME main' # "list", exit_code' = 0 PROVE Cardinality(next) <= faults'
  <2>1. Cardinality(now) <= faults
    BY <1>5 DEF now, LostInv
  <2> QED BY <1>2, <1>3, <1>4, <2>1
<1> QED BY <1>5 DEF next, LostInv

\* A scan that fails loses the file it was in.
LEMMA LostAtFailure ==
  ASSUME TypeOK, LostInv, [Next]_vars, NEW t \in Threads, ScanFails(t)
  PROVE  LostInv'
<1>1. /\ pc'[t] = "get" /\ \A u \in Threads \ {t} : pc'[u] = pc[u]
      /\ files' = files /\ file' = file /\ mine' = mine /\ report' = report
      /\ main' = main /\ exit_code' = exit_code
  BY DEF ScanFails, Goto, TypeOK, mainVars
<1>2. ASSUME NEW f \in Lost' PROVE f \in Lost \cup {file[t]}
  <2>1. /\ f \in Files /\ f \notin Range(files) /\ \A u \in Threads : ~Scanning(u, f)'
        /\ \E l \in HitsOf(f) : Uncounted(l)'
    BY <1>1 DEF Lost
  <2>2. \E l \in HitsOf(f) : Uncounted(l)
    BY <1>1, <2>1 DEF Uncounted
  <2>3. CASE f # file[t]
    BY <1>1, <2>1, <2>2, <2>3 DEF Lost, Scanning
  <2> QED BY <2>3
<1> DEFINE now == Lost
           next == Lost'
<1>3. IsFiniteSet(now) /\ next \subseteq now \cup {file[t]} /\ Cardinality(now) \in Nat
  BY <1>2, LostFinite
<1> HIDE DEF now, next
<1>4. /\ IsFiniteSet(now \cup {file[t]})
      /\ Cardinality(now \cup {file[t]}) <= Cardinality(now) + 1
      /\ Cardinality(now \cup {file[t]}) \in Nat
  <2>1. /\ IsFiniteSet(now \cup {file[t]})
        /\ \/ Cardinality(now \cup {file[t]}) = Cardinality(now)
           \/ Cardinality(now \cup {file[t]}) = Cardinality(now) + 1
    BY <1>3, FS_AddElement
  <2> QED BY <1>3, <2>1
<1>5. Cardinality(next) <= Cardinality(now \cup {file[t]}) /\ Cardinality(next) \in Nat
  BY <1>3, <1>4, FS_Subset, FS_CardinalityType
<1>6. faults \in Nat /\ faults' = faults + 1
  BY FaultsGrow DEF ScanFails, Fail
<1>7. ASSUME main' # "list", exit_code' = 0 PROVE Cardinality(next) <= faults'
  <2>1. Cardinality(now) <= faults
    BY <1>1, <1>7 DEF now, LostInv
  <2> QED BY <1>3, <1>4, <1>5, <1>6, <2>1
<1> QED BY <1>7 DEF next, LostInv

\* At the end of its file a thread has counted every line of it.
LEMMA CountedAtEnd ==
  ASSUME Inv, NEW t \in Threads, EndOfFile(t), NEW l \in HitsOf(file[t])
  PROVE  bytes[t][l] = 1
<1>1. /\ pc[t] = "scan" /\ line[t] > Len(Log[file[t]])
      /\ file[t] \in Files /\ line[t] \in Nat /\ Len(Log[file[t]]) \in Nat
  BY LineOfFile DEF EndOfFile, Goto, Inv
<1>2. l \in Lines /\ l[1] = file[t] /\ l[2] \in 1..Len(Log[l[1]])
  BY LineType DEF HitsOf
<1>3. Behind(t, l)
  BY <1>1, <1>2 DEF Behind
<1>4. Counted(t, l)
  BY <1>2 DEF Inv, ScanInv
<1> QED BY <1>1, <1>3, <1>4 DEF Counted

\* A store loses no file: the total only grows.
LEMMA LostAtStore ==
  ASSUME TypeOK, LockInv, LostInv, [Next]_vars, NEW t \in Threads, Stores(t),
         main' = main, exit_code' = exit_code
  PROVE  LostInv'
<1>1. \A u \in Threads, f \in Files : Scanning(u, f) => Scanning(u, f)'
  BY StoreMove DEF Scanning
<1>2. ASSUME NEW l \in Lines, Uncounted(l)' PROVE Uncounted(l)
  <2>1. /\ report'["served"][l] >= report["served"][l]
        /\ report["served"][l] \in Nat /\ report'["served"][l] = 0
    BY <1>2, StoreAdds, ValueType, BagValues, FieldMembers DEF Reports, Uncounted
  <2> QED BY <1>2, <2>1, StoreMove DEF Uncounted
<1>3. files' = files
  BY StoreMove
<1> QED BY <1>1, <1>2, <1>3, LostFrame

\* The names of a list are its head and the names of the rest.
LEMMA RangeSplit ==
  ASSUME NEW s \in Seq(Files), s # <<>>
  PROVE  Range(s) \subseteq Range(Tail(s)) \cup {Head(s)}
<1>1. /\ Len(s) \in Nat \ {0} /\ Len(Tail(s)) = Len(s) - 1
      /\ \A i \in 1..Len(Tail(s)) : Tail(s)[i] = s[i + 1]
      /\ DOMAIN s = 1..Len(s) /\ DOMAIN Tail(s) = 1..Len(Tail(s))
      /\ Head(s) = s[1]
  BY HeadTailProperties, LenProperties, EmptySeq
<1>2. ASSUME NEW i \in 1..Len(s), i # 1 PROVE s[i] \in Range(Tail(s))
  <2>1. i - 1 \in 1..Len(Tail(s)) /\ (i - 1) + 1 = i
    BY <1>1, <1>2
  <2>2. Tail(s)[i - 1] = s[i]
    BY <1>1, <2>1
  <2> QED BY <1>1, <2>1, <2>2 DEF Range
<1> QED BY <1>1, <1>2 DEF Range

\* A step that only moves main() on, past the list, loses no file.
LEMMA QuietLost ==
  ASSUME Lost' = Lost, faults' = faults, LostInv,
         main' # "list" /\ exit_code' = 0 => main # "list" /\ exit_code = 0
  PROVE  LostInv'
BY DEF LostInv

\* Every step keeps the lost files within the number of the calls that failed.
LEMMA NextLost ==
  ASSUME Inv, MergedInv, LostInv, [Next]_vars
  PROVE  LostInv'
<1> USE DEF threadVars, mainVars
<1> USE DEF Inv
<1>1. ASSUME NEW t \in Threads, GetLock(t) PROVE LostInv'
  <2>1. \A u \in Threads, f \in Files : Scanning(u, f) => Scanning(u, f)'
    BY <1>1 DEF GetLock, Goto, TypeOK, Scanning
  <2>2. \A l \in Lines : Uncounted(l)' => Uncounted(l)
    BY <1>1 DEF GetLock, Uncounted
  <2> QED BY <1>1, <2>1, <2>2, LostFrame DEF GetLock
<1>2. ASSUME NEW t \in Threads, ListEmpty(t) PROVE LostInv'
  <2>1. \A u \in Threads, f \in Files : Scanning(u, f) => Scanning(u, f)'
    BY <1>2 DEF ListEmpty, Goto, AfterNull, TypeOK, Scanning
  <2>2. \A l \in Lines : Uncounted(l)' => Uncounted(l)
    BY <1>2 DEF ListEmpty, Uncounted
  <2> QED BY <1>2, <2>1, <2>2, LostFrame DEF ListEmpty
<1>3. ASSUME NEW t \in Threads, CopyName(t) PROVE LostInv'
  <2>1. \A u \in Threads, f \in Files : Scanning(u, f) => Scanning(u, f)'
    BY <1>3 DEF CopyName, Goto, TypeOK, Scanning
  <2>2. \A l \in Lines : Uncounted(l)' => Uncounted(l)
    BY <1>3 DEF CopyName, Uncounted
  <2> QED BY <1>3, <2>1, <2>2, LostFrame DEF CopyName
<1>4. ASSUME NEW t \in Threads, CopyNameNoMemory(t) PROVE LostInv'
  <2>1. \A u \in Threads, f \in Files : Scanning(u, f) => Scanning(u, f)'
    BY <1>4 DEF CopyNameNoMemory, Goto, AfterNull, TypeOK, Scanning
  <2>2. \A l \in Lines : Uncounted(l)' => Uncounted(l)
    BY <1>4 DEF CopyNameNoMemory, Uncounted
  <2> QED BY <1>4, <2>1, <2>2, LostFrame DEF CopyNameNoMemory
<1>5. ASSUME NEW t \in Threads, PopName(t) PROVE LostInv'
  <2>1. /\ pc'[t] = "open" /\ \A u \in Threads \ {t} : pc'[u] = pc[u]
        /\ pc[t] = "pop" /\ file' = file /\ mine' = mine /\ report' = report
        /\ files # <<>> /\ files' = Tail(files) /\ file[t] = Head(files)
    BY <1>5 DEF PopName, Goto, TypeOK, LockInv
  <2>2. \A f \in Files : f \in Range(files) => f \in Range(files)' \/ f = file[t]
    <3>1. \A s \in Seq(Files) : s # <<>> => Range(s) \subseteq Range(Tail(s)) \cup {Head(s)}
      BY RangeSplit
    <3> QED BY <2>1, <3>1 DEF TypeOK
  <2>3. Scanning(t, file[t])'
    BY <2>1 DEF Scanning
  <2>4. \A u \in Threads, f \in Files : Scanning(u, f) => Scanning(u, f)'
    BY <2>1 DEF Scanning
  <2>5. \A l \in Lines : Uncounted(l)' => Uncounted(l)
    BY <2>1 DEF Uncounted
  <2> QED BY <1>5, <2>2, <2>3, <2>4, <2>5, LostFrame DEF PopName
<1>6. ASSUME NEW t \in Threads, OpenFile(t) PROVE LostInv'
  <2>1. \A u \in Threads, f \in Files : Scanning(u, f) => Scanning(u, f)'
    BY <1>6 DEF OpenFile, Goto, TypeOK, Scanning
  <2>2. \A l \in Lines : Uncounted(l)' => Uncounted(l)
    BY <1>6 DEF OpenFile, Uncounted
  <2> QED BY <1>6, <2>1, <2>2, LostFrame DEF OpenFile
<1>7. ASSUME NEW t \in Threads, ScanFails(t) PROVE LostInv'
  BY <1>7, LostAtFailure
<1>8. ASSUME NEW t \in Threads, ScanUrl(t) PROVE LostInv'
  <2>1. \A u \in Threads, f \in Files : Scanning(u, f) => Scanning(u, f)'
    BY <1>8 DEF ScanUrl, Goto, TypeOK, Scanning
  <2>2. \A u \in Threads : mine'[u]["served"] = mine[u]["served"]
    BY <1>8, ScanUrlWrite, FieldNames
  <2>3. \A l \in Lines : Uncounted(l)' => Uncounted(l)
    BY <1>8, <2>2 DEF ScanUrl, Uncounted
  <2> QED BY <1>8, <2>1, <2>3, LostFrame DEF ScanUrl
<1>9. ASSUME NEW t \in Threads, ScanReferer(t) PROVE LostInv'
  <2>1. \A u \in Threads, f \in Files : Scanning(u, f) => Scanning(u, f)'
    BY <1>9 DEF ScanReferer, Goto, TypeOK, Scanning
  <2>2. \A u \in Threads : mine'[u]["served"] = mine[u]["served"]
    BY <1>9, ScanRefererWrite, FieldNames
  <2>3. \A l \in Lines : Uncounted(l)' => Uncounted(l)
    BY <1>9, <2>2 DEF ScanReferer, Uncounted
  <2> QED BY <1>9, <2>1, <2>3, LostFrame DEF ScanReferer
<1>10. ASSUME NEW t \in Threads, SkipLine(t) PROVE LostInv'
  <2>1. \A u \in Threads, f \in Files : Scanning(u, f) => Scanning(u, f)'
    BY <1>10 DEF SkipLine, Goto, TypeOK, Scanning
  <2>2. \A l \in Lines : Uncounted(l)' => Uncounted(l)
    BY <1>10 DEF SkipLine, Uncounted
  <2> QED BY <1>10, <2>1, <2>2, LostFrame DEF SkipLine
<1>11. ASSUME NEW t \in Threads, EndOfFile(t) PROVE LostInv'
  <2>1. \A u \in Threads, l \in Lines : mine'[u]["served"][l] = 0 => mine[u]["served"][l] = 0
    <3>1. ASSUME NEW l \in Lines, mine'[t]["served"][l] = 0 PROVE mine[t]["served"][l] = 0
      <4>1. /\ mine'[t]["served"][l] = mine[t]["served"][l] + bytes[t][l]
            /\ mine[t]["served"][l] \in Nat /\ bytes[t][l] \in Nat
        BY <1>11, EndOfFileWrite, ValueType, BagValues, FieldMembers
      <4> QED BY <3>1, <4>1
    <3> QED BY <1>11, <3>1, EndOfFileWrite
  <2>2. \A l \in Lines : Uncounted(l)' => Uncounted(l)
    BY <1>11, <2>1 DEF EndOfFile, Uncounted
  <2>3. ASSUME NEW l \in HitsOf(file[t]) PROVE ~Uncounted(l)'
    <3>1. l \in Lines /\ bytes[t][l] = 1
      BY <1>11, LineType, CountedAtEnd DEF HitsOf
    <3>2. /\ mine'[t]["served"][l] = mine[t]["served"][l] + bytes[t][l]
          /\ mine[t]["served"][l] \in Nat
      BY <1>11, <3>1, EndOfFileWrite, ValueType, BagValues, FieldMembers
    <3> QED BY <3>1, <3>2 DEF Uncounted
  <2>4. \A u \in Threads, f \in Files : Scanning(u, f) => Scanning(u, f)' \/ f = file[t]
    BY <1>11 DEF EndOfFile, Goto, TypeOK, Scanning
  <2> QED BY <1>11, <2>2, <2>3, <2>4, LostFrame DEF EndOfFile
<1>12. ASSUME NEW t \in Threads, UpdateLock(t) PROVE LostInv'
  <2>1. \A u \in Threads, f \in Files : Scanning(u, f) => Scanning(u, f)'
    BY <1>12 DEF UpdateLock, Goto, TypeOK, Scanning
  <2>2. \A l \in Lines : Uncounted(l)' => Uncounted(l)
    BY <1>12 DEF UpdateLock, Uncounted
  <2> QED BY <1>12, <2>1, <2>2, LostFrame DEF UpdateLock
<1>13. ASSUME NEW t \in Threads, Load(t) PROVE LostInv'
  <2>1. \A u \in Threads, f \in Files : Scanning(u, f) => Scanning(u, f)'
    BY <1>13 DEF Load, Goto, TypeOK, Scanning
  <2>2. \A l \in Lines : Uncounted(l)' => Uncounted(l)
    BY <1>13 DEF Load, Uncounted
  <2> QED BY <1>13, <2>1, <2>2, LostFrame DEF Load
<1>14. ASSUME NEW t \in Threads, StoreTotal(t) PROVE LostInv'
  BY <1>14, LostAtStore DEF Stores, StoreTotal
<1>15. ASSUME NEW t \in Threads, StoreUrls(t) PROVE LostInv'
  BY <1>15, LostAtStore DEF Stores, StoreUrls
<1>16. ASSUME NEW t \in Threads, StoreReferers(t) PROVE LostInv'
  BY <1>16, LostAtStore DEF Stores, StoreReferers
<1>17. ASSUME NEW t \in Threads, UpdateUnlock(t) PROVE LostInv'
  <2>1. /\ mine'[t] = EmptyReport /\ \A u \in Threads \ {t} : mine'[u] = mine[u]
        /\ pc[t] = "unlock" /\ report' = report
    BY <1>17 DEF UpdateUnlock, Goto, TypeOK
  <2>2. ASSUME NEW l \in Lines, Uncounted(l)' PROVE Uncounted(l)
    <3>1. /\ mine[t]["served"][l] <= report["served"][l]
          /\ mine[t]["served"][l] \in Nat
      BY <2>1, ValueType, BagValues, FieldMembers DEF MergedInv, Added
    <3>2. report["served"][l] = 0 /\ \A u \in Threads \ {t} : mine[u]["served"][l] = 0
      BY <2>1, <2>2 DEF Uncounted
    <3> QED BY <3>1, <3>2 DEF Uncounted
  <2>3. \A u \in Threads, f \in Files : Scanning(u, f) => Scanning(u, f)'
    BY <1>17 DEF UpdateUnlock, Goto, TypeOK, Scanning
  <2> QED BY <1>17, <2>2, <2>3, LostFrame DEF UpdateUnlock
<1>18. ASSUME NEW t \in Threads, TouchFreed(t) PROVE LostInv'
  <2>1. \A u \in Threads, f \in Files : Scanning(u, f) => Scanning(u, f)'
    BY <1>18 DEF TouchFreed, AtReport, TypeOK, Scanning
  <2>2. \A l \in Lines : Uncounted(l)' => Uncounted(l)
    BY <1>18 DEF TouchFreed, Uncounted
  <2> QED BY <1>18, <2>1, <2>2, LostFrame DEF TouchFreed
<1>19. ASSUME NEW t \in Threads, CreateThread(t) PROVE LostInv'
  <2>1. \A u \in Threads, f \in Files : Scanning(u, f) => Scanning(u, f)'
    BY <1>19 DEF CreateThread, Goto, TypeOK, Scanning
  <2>2. \A l \in Lines : Uncounted(l)' => Uncounted(l)
    BY <1>19 DEF CreateThread, Uncounted
  <2> QED BY <1>19, <2>1, <2>2, LostFrame DEF CreateThread
<1>20. CASE AddFile
  BY <1>20 DEF AddFile, LostInv
<1>21. CASE Listed
  <2>1. Lost' = {}
    BY <1>21 DEF Listed, Lost
  <2>2. Cardinality(Lost') = 0
    BY <2>1, FS_EmptySet
  <2> QED BY <2>2, FaultsGrow DEF LostInv
<1>22. CASE Created
  <2>1. Lost' = Lost
    BY <1>22 DEF Created, Lost, Scanning, Uncounted
  <2> QED BY <1>22, <2>1, QuietLost DEF Created
<1>23. CASE MainFails
  BY <1>23 DEF MainFails, LostInv
<1>24. CASE Join
  <2>1. Lost' = Lost
    BY <1>24 DEF Join, Lost, Scanning, Uncounted
  <2> QED BY <1>24, <2>1, QuietLost DEF Join
<1>25. CASE PrintReport
  <2>1. Lost' = Lost
    BY <1>25 DEF PrintReport, Lost, Scanning, Uncounted
  <2> QED BY <1>25, <2>1, QuietLost DEF PrintReport
<1>26. CASE CleanUp
  <2>1. Lost' = Lost
    BY <1>26 DEF CleanUp, Lost, Scanning, Uncounted
  <2> QED BY <1>26, <2>1, QuietLost DEF CleanUp
<1>27. CASE Exit
  <2>1. Lost' = Lost
    BY <1>27 DEF Exit, Lost, Scanning, Uncounted
  <2> QED BY <1>27, <2>1, QuietLost DEF Exit
<1>28. CASE UNCHANGED vars
  <2>1. Lost' = Lost
    BY <1>28 DEF vars, Lost, Scanning, Uncounted
  <2> QED BY <1>28, <2>1, QuietLost DEF vars
<1> QED BY <1>1, <1>2, <1>3, <1>4, <1>5, <1>6, <1>7, <1>8, <1>9, <1>10, <1>11, <1>12, <1>13, <1>14,
  <1>15, <1>16, <1>17, <1>18, <1>19, <1>20, <1>21, <1>22, <1>23, <1>24, <1>25, <1>26, <1>27, <1>28
  DEF Next, MainStep, ThreadStep, GetNextFile, ScanFile, UpdateReport, Ended

\* The invariant of the report's contents holds at the start ...
LEMMA InitTruth == Init => WholeTruth
<1> SUFFICES ASSUME Init PROVE WholeTruth
  OBVIOUS
<1>1. Inv
  BY InitInv
<1>2. ExitInv /\ EmptyInv /\ LostInv /\ DoneInv
  BY DEF Init, ExitInv, EmptyInv, LostInv, DoneInv
<1>3. BalanceInv
  BY BagValues, FieldMembers DEF Init, BalanceInv, Balanced
<1>4. AgreeInv
  BY BagValues, FieldMembers DEF Init, AgreeInv, Merging
<1>5. MergedInv
  BY DEF Init, MergedInv, Added
<1> QED BY <1>1, <1>2, <1>3, <1>4, <1>5 DEF WholeTruth

\* ... and every step keeps it.
LEMMA NextTruth == WholeTruth /\ [Next]_vars => WholeTruth'
<1> SUFFICES ASSUME WholeTruth, [Next]_vars PROVE WholeTruth'
  OBVIOUS
<1> USE DEF WholeTruth
<1>1. TypeOK /\ LockInv /\ MainInv
  BY DEF Inv
<1>2. Inv'
  BY NextInv
<1>3. ExitInv' /\ EmptyInv' /\ DoneInv' /\ MergedInv' /\ LostInv'
  BY <1>1, NextExit, NextEmpty, NextDone, NextMerged, NextLost
<1>4. BalanceInv'
  BY NextBalance DEF BalanceInv
<1>5. AgreeInv'
  <2>1. CASE faults' = 0
    BY <2>1, NextAgree
  <2>2. CASE faults' # 0
    BY <2>2 DEF AgreeInv
  <2> QED BY <2>1, <2>2
<1> QED BY <1>2, <1>3, <1>4, <1>5

\* The inductive invariant of what the report has of the directory.
THEOREM TruthInvariance == Spec => []WholeTruth
BY InitTruth, NextTruth, PTL DEF Spec

\* While no call has failed, the total, the URLs and the referers of the report agree,
\* line by line, whenever no thread is inside update_scan_report.
THEOREM ReportConsistentCorrect == Spec => []ReportConsistent
<1>1. ASSUME WholeTruth PROVE ReportConsistent
  <2>1. report["served"] \in Bags /\ report["perUrl"] \in Bags /\ report["perRef"] \in Bags
    BY <1>1, FieldMembers DEF WholeTruth, Inv, TypeOK, Reports
  <2>2. \A a, b \in Bags : (\A l \in Lines : a[l] = b[l]) => a = b
    BY DEF Bags
  <2>3. ASSUME faults = 0, \A t \in Threads : pc[t] \notin {"load", "store"}
        PROVE  report["served"] = report["perUrl"] /\ report["served"] = report["perRef"]
    BY <1>1, <2>1, <2>2, <2>3 DEF WholeTruth, AgreeInv, Merging
  <2> QED BY <2>3 DEF ReportConsistent
<1> QED BY <1>1, TruthInvariance, PTL

\* What main() prints lacks at most one file for every call that failed, unless a failed
\* malloc stopped a thread with the mutex locked.
THEOREM LossBoundedCorrect == Spec => []LossBounded
<1>1. ASSUME WholeTruth, output # "nothing", ~LockLeaked
      PROVE  Cardinality(Missing) <= faults
  <2> USE <1>1 DEF WholeTruth, Inv
  <2>1. exit_code = 0 /\ main \notin {"list", "create", "join", "print"}
    BY DEF ExitInv
  <2>2. \A t \in Threads : pc[t] = "done"
    <3>1. main \in {"cleanup", "freed", "exited"}
      BY <2>1 DEF TypeOK
    <3> QED BY <2>1, <3>1 DEF MainInv
  <2>3. files = <<>>
    BY <2>1, <2>2, ThreadsAssumption DEF EmptyInv
  <2>4. \A t \in Threads, l \in Lines : mine[t]["served"][l] = 0
    BY <2>2, BagValues, FieldMembers DEF DoneInv
  <2>5. Range(files) = {}
    BY <2>3 DEF Range
  <2>6. ASSUME NEW f \in Missing PROVE f \in Lost
    <3>1. PICK l \in HitsOf(f) : report["served"][l] = 0
      BY DEF Missing
    <3>2. l \in Lines /\ f \in Files
      BY LineType DEF HitsOf, Missing
    <3>3. Uncounted(l)
      BY <2>4, <3>1, <3>2 DEF Uncounted
    <3> QED BY <2>2, <2>5, <3>2, <3>3 DEF Lost, Scanning
  <2>7. Cardinality(Lost) <= faults
    BY <2>1 DEF LostInv
  <2>8. Cardinality(Missing) <= Cardinality(Lost) /\ Cardinality(Missing) \in Nat
    <3>1. Missing \subseteq Lost
      BY <2>6
    <3> QED BY <3>1, LostFinite, FS_Subset, FS_CardinalityType
  <2>9. faults \in Nat
    <3>1. faults \in 0..MaxFaults
      BY DEF TypeOK
    <3> QED BY <3>1, FaultsAssumption
  <2> QED BY <2>7, <2>8, <2>9, LostFinite
<1>2. WholeTruth => LossBounded
  BY <1>1 DEF LossBounded
<1> QED BY <1>2, TruthInvariance, PTL
=============================================================================
