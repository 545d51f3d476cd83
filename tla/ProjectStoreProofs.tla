------------------------- MODULE ProjectStoreProofs -------------------------
(***************************************************************************)
(* Proofs that every behaviour of ProjectStore, for any names, bounds and  *)
(* features, keeps the invariants the model checker tests on two names.    *)
(* IInv (in ProjectStore) is the inductive invariant; the lemmas on Occ    *)
(* say how the listing changes when a project is added or deleted.         *)
(*                                                                         *)
(* The last part is about the two screens that are composed with the       *)
(* database, the map tab and the details of a project.  Every step of      *)
(* either is a step of ProjectStore or leaves its variables alone, so the  *)
(* invariant of the database carries over; MapInv and DetailsInv add what  *)
(* the screens remember of it.                                             *)
(***************************************************************************)
EXTENDS MapTab, ProjectDetails, FiniteSetTheorems, TLAPS

-----------------------------------------------------------------------------
(* Listings.                                                               *)

\* The number of projects of a name is a natural number, positive exactly
\* when the name is listed.
LEMMA OccNat ==
    ASSUME NEW s \in Seq(Names), NEW m
    PROVE  Occ(s, m) \in Nat /\ (Has(s, m) <=> Occ(s, m) > 0)
<1> DEFINE P == {i \in DOMAIN s : s[i] = m}
<1>1. DOMAIN s = 1..Len(s) /\ Len(s) \in Nat
  OBVIOUS
<1>2. IsFiniteSet(1..Len(s))
  BY <1>1, FS_Interval
<1>3. IsFiniteSet(P)
  BY <1>1, <1>2, FS_Subset
<1>4. Cardinality(P) \in Nat /\ (Cardinality(P) = 0 <=> P = {})
  BY <1>3, FS_CardinalityType, FS_EmptySet
<1>5. Has(s, m) <=> P # {}
  BY DEF Has
<1>6. QED
  BY <1>4, <1>5 DEF Occ

\* Saving a project adds one to the count of its name and changes no other.
LEMMA OccAppend ==
    ASSUME NEW s \in Seq(Names), NEW n \in Names, NEW m
    PROVE  Occ(Append(s, n), m) = IF m = n THEN Occ(s, m) + 1 ELSE Occ(s, m)
<1> DEFINE t == Append(s, n)
           P == {i \in DOMAIN s : s[i] = m}
           Q == {i \in DOMAIN t : t[i] = m}
<1>1. /\ Len(s) \in Nat /\ DOMAIN s = 1..Len(s) /\ DOMAIN t = 1..(Len(s) + 1)
      /\ t[Len(s) + 1] = n /\ \A i \in 1..Len(s) : t[i] = s[i]
  OBVIOUS
<1>2. IsFiniteSet(P)
  <2>1. IsFiniteSet(1..Len(s))
    BY <1>1, FS_Interval
  <2>2. QED
    BY <1>1, <2>1, FS_Subset
<1>3. Len(s) + 1 \notin P
  BY <1>1
<1>4. CASE m = n
  <2>1. Q = P \cup {Len(s) + 1}
    BY <1>1, <1>4
  <2>2. Cardinality(Q) = Cardinality(P) + 1
    BY <1>2, <1>3, <2>1, FS_AddElement
  <2>3. QED
    BY <1>4, <2>2 DEF Occ
<1>5. CASE m # n
  <2>1. Q = P
    BY <1>1, <1>5
  <2>2. QED
    BY <1>5, <2>1 DEF Occ
<1>6. QED
  BY <1>4, <1>5

\* A name stays listed when a project is appended, and the new one is listed.
LEMMA HasAppend ==
    ASSUME NEW s \in Seq(Names), NEW n \in Names, NEW m, Has(s, m) \/ m = n
    PROVE  Append(s, n) \in Seq(Names) /\ Has(Append(s, n), m)
<1>1. Occ(Append(s, n), m) > 0
  BY OccAppend, OccNat
<1>2. Append(s, n) \in Seq(Names)
  OBVIOUS
<1>3. QED
  BY <1>1, <1>2, OccNat

\* A deletion yields a listing with every other name as often as before.
LEMMA WithoutListing ==
    ASSUME NEW s \in Seq(Names), NEW n \in Names, NEW t \in Without(s, n)
    PROVE  /\ t \in Seq(Names)
           /\ \A m \in Names : Occ(t, m) = IF m = n THEN 0 ELSE Occ(s, m)
           /\ \A m \in Names \ {n} : Has(t, m) <=> Has(s, m)
<1>1. /\ \E k \in 0..Len(s) : t \in [1..k -> Names]
      /\ \A m \in Names : Occ(t, m) = IF m = n THEN 0 ELSE Occ(s, m)
  BY DEF Without
<1>2. t \in Seq(Names)
  BY <1>1
<1>3. QED
  BY <1>1, <1>2, OccNat

-----------------------------------------------------------------------------
(* Steps that leave the database alone.                                    *)

\* The conditions a new screen has to meet.
ScreenFits(s) ==
    /\ s \in Screen
    /\ s.page \in {"existant", "newOverExistant", "replace"} => s.feature \in Savable
    /\ IF s.page = "replace" THEN s.name \in Names /\ Has(projects, s.name)
                             ELSE s.name = NoProject

\* The conditions a handler has to meet when it starts.
JobFits(j) ==
    /\ j \in Job /\ j.name \in Names
    /\ j.call \in {"saveNew", "saveToExistant", "erase", "savePhoto", "drop"}
    /\ j.call \in {"saveToExistant", "erase"} => j.feature \in Savable
    /\ j.call # "saveNew" => Has(projects, j.name)
    /\ j.call = "saveToExistant" => rec[First(j.feature)][j.name] = 0
    /\ j.call = "drop" => screen' = NoPopUp /\ details = NoProject

\* Opening or closing a pop-up keeps the invariant.
LEMMA ShowStep ==
    ASSUME IInv, Idle, NEW s, ScreenFits(s), Show(s)
    PROVE  IInv'
<1> USE DEF IInv, Idle, Show, ScreenFits
<1>1. TypeOK' /\ ScreenOK' /\ HeldProjectsExist'
  BY StoreAssumption DEF TypeOK, ScreenOK, HeldProjectsExist, Has
<1>2. JobOK'
  BY DEF JobOK, NoJob, Has, First, SaveCalls
<1>3. NoOrphanRecords' /\ OneRecordPerProject'
  BY DEF NoOrphanRecords, OneRecordPerProject, Has, Occ
<1>4. PartsInStep' /\ ManagedInStep'
  BY DEF PartsInStep, Behind, ManagedInStep
<1>5. QED
  BY <1>1, <1>2, <1>3, <1>4

\* A step that leaves the database, the pop-ups and the handler alone keeps
\* the invariant when it follows only projects that exist.
LEMMA QuietStep ==
    ASSUME IInv, UNCHANGED <<projects, rec, screen, job, torn>>,
           managed' = managed,
           app' \in {"running", "crashed", "killed"}, details' = details
    PROVE  IInv'
<1> USE DEF IInv
<1>1. TypeOK' /\ ScreenOK' /\ HeldProjectsExist'
  BY DEF TypeOK, ScreenOK, HeldProjectsExist, Has
<1>2. JobOK'
  BY DEF JobOK, Has
<1>3. NoOrphanRecords' /\ OneRecordPerProject'
  BY DEF NoOrphanRecords, OneRecordPerProject, Has, Occ
<1>4. PartsInStep' /\ ManagedInStep'
  BY DEF PartsInStep, Behind, ManagedInStep
<1>5. QED
  BY <1>1, <1>2, <1>3, <1>4

\* Between handlers and without a pop-up, the details of a listed project may
\* open or close; a fresh controller forgets the last photo.
LEMMA DetailsStep ==
    ASSUME IInv, Idle, UNCHANGED <<projects, rec, screen, job, app, torn>>,
           managed' \in {managed, managed \ {"photo"}},
           \/ details' = NoProject
           \/ details' \in Names /\ Has(projects, details')
    PROVE  IInv'
<1> USE DEF IInv, Idle
<1>1. TypeOK' /\ ScreenOK' /\ HeldProjectsExist'
  BY DEF TypeOK, ScreenOK, HeldProjectsExist, Has
<1>2. JobOK'
  BY DEF JobOK, NoJob, SaveCalls
<1>3. NoOrphanRecords' /\ OneRecordPerProject'
  BY DEF NoOrphanRecords, OneRecordPerProject, Has, Occ
<1>4. PartsInStep' /\ ManagedInStep'
  BY DEF PartsInStep, Behind, ManagedInStep, NoJob, ChecklistParts
<1>5. QED
  BY <1>1, <1>2, <1>3, <1>4

\* A handler that starts between handlers keeps the invariant.
LEMMA StartStep ==
    ASSUME IInv, Idle, NEW j, NEW closed, Start(j, closed), JobFits(j),
           \A s \in closed : ScreenFits(s)
    PROVE  IInv'
<1> USE DEF IInv, Idle, Start, JobFits
<1>0. ScreenFits(screen') /\ job' = j
  OBVIOUS
<1>1. TypeOK' /\ ScreenOK' /\ HeldProjectsExist'
  BY <1>0, StoreAssumption DEF TypeOK, ScreenOK, HeldProjectsExist, Has, ScreenFits
<1>2. JobOK'
  BY DEF JobOK, Has, First, SaveCalls
<1>3. NoOrphanRecords' /\ OneRecordPerProject'
  BY DEF NoOrphanRecords, OneRecordPerProject, Has, Occ
<1>4. PartsInStep' /\ ManagedInStep'
  <2>1. job.call = "none" /\ j.call \notin {"saveDistrict", "saveBlock", "saveApartment"}
    BY DEF NoJob
  <2>2. \A n \in Names :
           /\ Behind(n, {"saveDistrict"}) = 0
           /\ Behind(n, {"saveDistrict", "saveBlock"}) = 0
           /\ Behind(n, {"saveDistrict", "saveBlock", "saveApartment"}) = 0
           /\ Behind(n, {"saveDistrict"})' = 0
           /\ Behind(n, {"saveDistrict", "saveBlock"})' = 0
           /\ Behind(n, {"saveDistrict", "saveBlock", "saveApartment"})' = 0
    BY <2>1 DEF Behind
  <2>3. PartsInStep'
    BY <2>2 DEF PartsInStep
  <2>4. ManagedInStep'
    BY <2>1 DEF ManagedInStep
  <2>5. QED
    BY <2>3, <2>4
<1>5. QED
  BY <1>1, <1>2, <1>3, <1>4

\* The end of the process keeps the invariant: memory is lost, the database
\* is not, and the checklist that was being written counts as torn.
LEMMA StopStep ==
    ASSUME IInv, NEW how \in {"crashed", "killed"}, Stop(how),
           UNCHANGED <<projects, rec>>
    PROVE  IInv'
<1> USE DEF IInv, Stop
<1>1. TypeOK' /\ ScreenOK' /\ HeldProjectsExist'
  BY StoreAssumption DEF TypeOK, ScreenOK, HeldProjectsExist, JobOK, NoPopUp, Screen, Pages,
       NoJob, Job, Calls, SaveCalls
<1>2. JobOK'
  BY DEF JobOK, NoJob, SaveCalls
<1>3. NoOrphanRecords' /\ OneRecordPerProject'
  BY DEF NoOrphanRecords, OneRecordPerProject, Has, Occ
<1>4. PartsInStep'
  <2>0. \A n \in Names :
           \A S \in SUBSET {"saveDistrict", "saveBlock", "saveApartment"} :
              Behind(n, S)' = 0
    BY DEF Behind, NoJob
  <2> SUFFICES ASSUME NEW n \in Names
               PROVE  /\ rec["district"][n] <= rec["general"][n]
                      /\ rec["block"][n] <= rec["district"][n]
                      /\ rec["apartment"][n] <= rec["block"][n]
                      /\ n \notin torn' => rec["apartment"][n] = rec["general"][n]
    <3>1. \A n \in Names, k \in ChecklistParts : rec'[k][n] = rec[k][n] /\ rec[k][n] \in Nat
      BY DEF TypeOK, Kinds
    <3>2. QED
      BY <2>0, <3>1 DEF PartsInStep, ChecklistParts
  <2>1. \A k \in ChecklistParts : rec[k][n] \in Nat
    BY DEF TypeOK, Kinds
  <2>2. /\ rec["district"][n] + Behind(n, {"saveDistrict"}) <= rec["general"][n]
        /\ rec["block"][n] + Behind(n, {"saveDistrict", "saveBlock"})
             <= rec["district"][n] + Behind(n, {"saveDistrict"})
        /\ rec["apartment"][n] + Behind(n, {"saveDistrict", "saveBlock", "saveApartment"})
             <= rec["block"][n] + Behind(n, {"saveDistrict", "saveBlock"})
        /\ n \notin torn => rec["apartment"][n]
             + Behind(n, {"saveDistrict", "saveBlock", "saveApartment"}) = rec["general"][n]
    BY DEF PartsInStep
  <2>3. QED
    BY <2>1, <2>2 DEF Behind, ChecklistParts
<1>5. ManagedInStep'
  BY DEF ManagedInStep, NoJob
<1>6. QED
  BY <1>1, <1>2, <1>3, <1>4, <1>5

-----------------------------------------------------------------------------
(* Steps that write to the database.                                       *)

\* Which table each save call writes, and which call follows it.
LEMMA SaveCallFacts ==
    ASSUME IInv, job.call \in SaveCalls \cup {"saveNew"},
           job.call = "saveNew" => job.feature # "empty"
    PROVE  /\ Written \in Kinds /\ job.name \in Names
           /\ job.call \in {"saveNew", "saveToExistant", "resave"}
                => Written = First(job.feature) /\ job.feature \in Savable
           /\ job.call = "saveDistrict" => Written = "district"
           /\ job.call = "saveBlock" => Written = "block"
           /\ job.call = "saveApartment" => Written = "apartment"
           /\ job.call = "savePhoto" => Written = "photo"
<1>1. job \in Job /\ JobOK
  BY DEF IInv, TypeOK
<1>2. QED
  BY <1>1 DEF Written, JobOK, Job, First, Kinds, ChecklistParts, Savable, SaveCalls

\* A handler's next call is for the same project, and a checklist goes on until
\* its fourth part.
LEMMA NextCallFacts ==
    ASSUME IInv, job.call \in SaveCalls \cup {"saveNew"}
    PROVE  /\ NextCall \in Job
           /\ \/ NextCall = NoJob
              \/ /\ NextCall.name = job.name
                 /\ \/ /\ job.call \in {"saveNew", "saveToExistant", "resave"}
                       /\ job.feature = "checklist" /\ NextCall.call = "saveDistrict"
                    \/ job.call = "saveDistrict" /\ NextCall.call = "saveBlock"
                    \/ job.call = "saveBlock" /\ NextCall.call = "saveApartment"
           /\ NextCall = NoJob =>
                 /\ job.call \notin {"saveDistrict", "saveBlock"}
                 /\ job.call \in {"saveNew", "saveToExistant", "resave"}
                      => job.feature # "checklist"
<1>1. job \in Job /\ [job EXCEPT !.call = "saveDistrict"] \in Job
      /\ [job EXCEPT !.call = "saveBlock"] \in Job
      /\ [job EXCEPT !.call = "saveApartment"] \in Job
      /\ NoJob \in Job
  BY DEF IInv, TypeOK, Job, Calls, SaveCalls, NoJob
<1>2. NoJob.call = "none"
  BY DEF NoJob
<1>3. QED
  BY <1>1, <1>2 DEF NextCall, Job, SaveCalls

\* One more record of the table the call writes: the order and the number of
\* the parts of a checklist stay in step with the handler.
LEMMA AddInStep ==
    ASSUME IInv, job.call \in SaveCalls \cup {"saveNew"},
           job.call = "saveNew" => job.feature # "empty",
           ~Raises(Written), Add(Written, job.name), Manage(Written),
           job' = NextCall, torn' = torn
    PROVE  PartsInStep' /\ ManagedInStep'
<1> DEFINE D == {"saveDistrict"}
           B == {"saveDistrict", "saveBlock"}
           A == {"saveDistrict", "saveBlock", "saveApartment"}
<1> USE SaveCallFacts, NextCallFacts
<1>1. /\ \A k \in Kinds, n \in Names : rec[k][n] \in Nat
      /\ \A k \in Kinds, n \in Names :
            rec'[k][n] = IF k = Written /\ n = job.name THEN rec[k][n] + 1 ELSE rec[k][n]
  BY DEF IInv, TypeOK, Add
<1>2. PartsInStep'
  <2> SUFFICES ASSUME NEW n \in Names
               PROVE  /\ rec'["district"][n] + Behind(n, D)' <= rec'["general"][n]
                      /\ rec'["block"][n] + Behind(n, B)' <= rec'["district"][n] + Behind(n, D)'
                      /\ rec'["apartment"][n] + Behind(n, A)' <= rec'["block"][n] + Behind(n, B)'
                      /\ n \notin torn => rec'["apartment"][n] + Behind(n, A)' = rec'["general"][n]
    BY DEF PartsInStep
  <2>1. /\ rec["district"][n] + Behind(n, D) <= rec["general"][n]
        /\ rec["block"][n] + Behind(n, B) <= rec["district"][n] + Behind(n, D)
        /\ rec["apartment"][n] + Behind(n, A) <= rec["block"][n] + Behind(n, B)
        /\ n \notin torn => rec["apartment"][n] + Behind(n, A) = rec["general"][n]
    BY DEF IInv, PartsInStep
  <2>2. "general" \in Kinds /\ "district" \in Kinds /\ "block" \in Kinds /\ "apartment" \in Kinds
    BY DEF Kinds, ChecklistParts
  <2>3. CASE n # job.name
    <3>1. /\ Behind(n, D) = 0 /\ Behind(n, B) = 0 /\ Behind(n, A) = 0
          /\ Behind(n, D)' = 0 /\ Behind(n, B)' = 0 /\ Behind(n, A)' = 0
      BY <2>3, StoreAssumption DEF Behind, NoJob
    <3>2. QED
      BY <1>1, <2>1, <2>2, <2>3, <3>1
  <2>4. CASE n = job.name /\ job.call \in {"saveNew", "saveToExistant", "resave"}
    <3>1. /\ Behind(n, D) = 0 /\ Behind(n, B) = 0 /\ Behind(n, A) = 0
      BY <2>4 DEF Behind
    <3>2. CASE job.feature = "checklist"
      <4>1. /\ Behind(n, D)' = 1 /\ Behind(n, B)' = 1 /\ Behind(n, A)' = 1
        BY <2>4, <3>2 DEF Behind
      <4>2. Written = "general"
        BY <2>4, <3>2 DEF First
      <4>3. QED
        BY <1>1, <2>1, <2>2, <2>4, <3>1, <4>1, <4>2
    <3>3. CASE job.feature # "checklist"
      <4>1. /\ Behind(n, D)' = 0 /\ Behind(n, B)' = 0 /\ Behind(n, A)' = 0
        BY <2>4, <3>3, StoreAssumption DEF Behind, NoJob, SaveCalls
      <4>2. Written \notin ChecklistParts
        BY <2>4, <3>3 DEF First, Savable, ChecklistParts
      <4>3. QED
        BY <1>1, <2>1, <2>2, <2>4, <3>1, <4>1, <4>2 DEF ChecklistParts
    <3>4. QED
      BY <3>2, <3>3
  <2>5. CASE n = job.name /\ job.call = "saveDistrict"
    <3>1. /\ Behind(n, D) = 1 /\ Behind(n, B) = 1 /\ Behind(n, A) = 1
          /\ Behind(n, D)' = 0 /\ Behind(n, B)' = 1 /\ Behind(n, A)' = 1
      BY <2>5 DEF Behind
    <3>2. QED
      BY <1>1, <2>1, <2>2, <2>5, <3>1
  <2>6. CASE n = job.name /\ job.call = "saveBlock"
    <3>1. /\ Behind(n, D) = 0 /\ Behind(n, B) = 1 /\ Behind(n, A) = 1
          /\ Behind(n, D)' = 0 /\ Behind(n, B)' = 0 /\ Behind(n, A)' = 1
      BY <2>6 DEF Behind
    <3>2. QED
      BY <1>1, <2>1, <2>2, <2>6, <3>1
  <2>7. CASE n = job.name /\ job.call \in {"saveApartment", "savePhoto"}
    <3>1. NextCall = NoJob
      BY <2>7
    <3>2. /\ Behind(n, D) = 0 /\ Behind(n, B) = 0
          /\ Behind(n, A) = IF job.call = "saveApartment" THEN 1 ELSE 0
          /\ Behind(n, D)' = 0 /\ Behind(n, B)' = 0 /\ Behind(n, A)' = 0
      BY <2>7, <3>1, StoreAssumption DEF Behind, NoJob
    <3>3. QED
      BY <1>1, <2>1, <2>2, <2>7, <3>2
  <2>8. QED
    BY <2>3, <2>4, <2>5, <2>6, <2>7 DEF SaveCalls
<1>3. ManagedInStep'
  <2>1. ManagedInStep /\ ~Raises(Written)
    BY DEF IInv
  <2>2. NoJob.call = "none"
    BY DEF NoJob
  <2>3. managed' = managed \cup {Written} \/ (Written = "adress" /\ managed' = managed)
    BY DEF Manage
  <2>4. CASE job.call \in {"saveNew", "saveToExistant", "resave"}
    <3>1. CASE job.feature = "checklist"
      <4>1. Written = "general" /\ NextCall.call = "saveDistrict"
        BY <2>2, <2>4, <3>1 DEF First
      <4>2. QED
        BY <2>1, <2>3, <4>1 DEF ManagedInStep, Raises, ChecklistParts
    <3>2. CASE job.feature # "checklist"
      <4>1. Written \notin ChecklistParts /\ NextCall = NoJob
        BY <2>2, <2>4, <3>2 DEF First, Savable, ChecklistParts
      <4>2. QED
        BY <2>1, <2>2, <2>3, <4>1 DEF ManagedInStep, ChecklistParts
    <3>3. QED
      BY <3>1, <3>2
  <2>5. CASE job.call = "saveDistrict"
    <3>1. Written = "district" /\ NextCall.call = "saveBlock"
      BY <2>2, <2>5
    <3>2. QED
      BY <2>1, <2>3, <2>5, <3>1 DEF ManagedInStep, Raises, ChecklistParts
  <2>6. CASE job.call = "saveBlock"
    <3>1. Written = "block" /\ NextCall.call \in {"none", "saveApartment"}
      BY <2>2, <2>6
    <3>2. QED
      BY <2>1, <2>3, <2>6, <3>1 DEF ManagedInStep, Raises, ChecklistParts
  <2>7. CASE job.call \in {"saveApartment", "savePhoto"}
    <3>1. NextCall = NoJob /\ Written \in {"apartment", "photo"}
      BY <2>7
    <3>2. (Written = "apartment" => "general" \in managed)
      BY <2>1, <2>7, <3>1 DEF ManagedInStep
    <3>3. QED
      BY <2>1, <2>2, <2>3, <3>1, <3>2 DEF ManagedInStep, ChecklistParts
  <2>8. QED
    BY <2>4, <2>5, <2>6, <2>7 DEF SaveCalls
<1>4. QED
  BY <1>2, <1>3

\* The next call of a handler may run whenever its project is listed.
LEMMA NextJobOK ==
    ASSUME IInv, job.call \in SaveCalls \cup {"saveNew"}, job' = NextCall,
           Has(projects', job.name)
    PROVE  JobOK'
<1>1. NoJob.call = "none"
  BY DEF NoJob
<1>2. job.call # "none" /\ job.name \in Names
  BY DEF IInv, JobOK, SaveCalls
<1>3. QED
  BY <1>1, <1>2, NextCallFacts DEF JobOK, SaveCalls

\* A new project is saved together with its first record.
LEMMA SaveNewStep == ASSUME IInv, SaveNew PROVE IInv'
<1> USE DEF IInv
<1>1. /\ projects \in Seq(Names) /\ job.name \in Names /\ job \in Job
      /\ projects' = Append(projects, job.name)
      /\ rec \in [Kinds -> [Names -> Nat]]
  BY DEF SaveNew, TypeOK, JobOK
<1>2. /\ projects' \in Seq(Names)
      /\ \A m : Has(projects, m) \/ m = job.name => Has(projects', m)
  BY <1>1, HasAppend
<1>3. \A m : Occ(projects', m) = IF m = job.name THEN Occ(projects, m) + 1 ELSE Occ(projects, m)
  BY <1>1, OccAppend
<1>4. \A m : Occ(projects, m) \in Nat
  BY <1>1, OccNat
<1>5. CASE job.feature = "empty"
  <2>1. /\ rec' = rec /\ managed' = managed /\ screen' = screen /\ details' = details
        /\ app' = app /\ torn' = torn /\ job.call = "saveNew" /\ job' = NextCall
    BY <1>5 DEF SaveNew
  <2>2. job' = NoJob
    BY <1>5, <2>1, <1>1 DEF NextCall
  <2>3. TypeOK'
    BY <1>2, <2>1, <2>2, NextCallFacts DEF TypeOK
  <2>4. ScreenOK' /\ HeldProjectsExist'
    BY <1>2, <2>1 DEF ScreenOK, HeldProjectsExist
  <2>5. JobOK'
    BY <2>2 DEF JobOK, NoJob, SaveCalls
  <2>6. NoOrphanRecords' /\ OneRecordPerProject'
    <3>1. NoOrphanRecords'
      BY <1>2, <2>1 DEF NoOrphanRecords
    <3>2. ASSUME NEW k \in Kinds \ {"photo"}, NEW n \in Names
          PROVE  rec'[k][n] <= Occ(projects', n)
      <4>1. rec[k][n] <= Occ(projects, n) /\ rec[k][n] \in Nat
        BY <1>1 DEF OneRecordPerProject
      <4>2. QED
        BY <1>3, <1>4, <2>1, <4>1
    <3>3. QED
      BY <3>1, <3>2 DEF OneRecordPerProject, Occ
  <2>7. PartsInStep' /\ ManagedInStep'
    <3>1. \A n \in Names, S \in SUBSET {"saveDistrict", "saveBlock", "saveApartment"} :
             Behind(n, S) = 0 /\ Behind(n, S)' = 0
      BY <2>1, <2>2 DEF Behind, NoJob
    <3>2. PartsInStep'
      BY <2>1, <3>1 DEF PartsInStep
    <3>3. ManagedInStep'
      BY <2>1, <2>2 DEF ManagedInStep, NoJob
    <3>4. QED
      BY <3>2, <3>3
  <2>8. QED
    BY <2>3, <2>4, <2>5, <2>6, <2>7
<1>6. CASE job.feature # "empty"
  <2>1. /\ ~Raises(Written) /\ Add(Written, job.name) /\ Manage(Written)
        /\ screen' = screen /\ details' = details
        /\ app' = app /\ torn' = torn /\ job.call = "saveNew" /\ job' = NextCall
    BY <1>6 DEF SaveNew
  <2>2. Written \in Kinds
    BY <1>6, <2>1, SaveCallFacts
  <2>3. TypeOK'
    <3>1. rec' \in [Kinds -> [Names -> Nat]]
      BY <1>1, <2>1, <2>2 DEF Add
    <3>2. QED
      BY <1>2, <2>1, <2>2, <3>1, NextCallFacts DEF TypeOK, Manage
  <2>4. ScreenOK' /\ HeldProjectsExist'
    BY <1>2, <2>1 DEF ScreenOK, HeldProjectsExist
  <2>5. JobOK'
    BY <1>2, <2>1, NextJobOK DEF Has
  <2>6. \A k \in Kinds, n \in Names : rec'[k][n] =
           IF k = Written /\ n = job.name THEN rec[k][n] + 1 ELSE rec[k][n]
    BY <1>1, <2>1, <2>2 DEF Add
  <2>7. NoOrphanRecords'
    BY <1>2, <2>6 DEF NoOrphanRecords
  <2>8. OneRecordPerProject'
    <3> SUFFICES ASSUME NEW k \in Kinds \ {"photo"}, NEW n \in Names
                 PROVE  rec'[k][n] <= Occ(projects', n)
      BY DEF OneRecordPerProject, Occ
    <3>1. rec[k][n] <= Occ(projects, n) /\ rec[k][n] \in Nat
      BY <1>1 DEF OneRecordPerProject
    <3>2. QED
      BY <1>3, <1>4, <2>6, <3>1
  <2>9. PartsInStep' /\ ManagedInStep'
    BY <1>6, <2>1, AddInStep
  <2>10. QED
    BY <2>3, <2>4, <2>5, <2>7, <2>8, <2>9
<1>7. QED
  BY <1>5, <1>6

\* A record is saved for a project that is listed and, photos apart, lacks it.
LEMMA SaveRecordStep == ASSUME IInv, SaveRecord PROVE IInv'
<1> USE DEF IInv
<1>1. /\ ~Raises(Written) /\ Add(Written, job.name) /\ Manage(Written)
      /\ projects' = projects /\ screen' = screen /\ details' = details
      /\ app' = app /\ torn' = torn /\ job.call \in SaveCalls /\ job' = NextCall
  BY DEF SaveRecord
<1>2. job.call # "saveNew" /\ projects \in Seq(Names) /\ rec \in [Kinds -> [Names -> Nat]]
  BY <1>1 DEF SaveCalls, TypeOK
<1>3. Written \in Kinds /\ job.name \in Names /\ Has(projects, job.name)
  BY <1>1, <1>2, SaveCallFacts DEF JobOK
<1>4. \A k \in Kinds, n \in Names : rec'[k][n] =
         IF k = Written /\ n = job.name THEN rec[k][n] + 1 ELSE rec[k][n]
  BY <1>1, <1>2, <1>3 DEF Add
<1>5. TypeOK'
  <2>1. rec' \in [Kinds -> [Names -> Nat]]
    BY <1>1, <1>2, <1>3 DEF Add
  <2>2. QED
    BY <1>1, <1>3, <2>1, NextCallFacts DEF TypeOK, Manage
<1>6. ScreenOK' /\ HeldProjectsExist'
  BY <1>1 DEF ScreenOK, HeldProjectsExist, Has
<1>7. JobOK'
  BY <1>1, <1>3, NextJobOK DEF Has
<1>8. NoOrphanRecords'
  BY <1>1, <1>3, <1>4 DEF NoOrphanRecords, Has
<1>9. OneRecordPerProject'
  <2> SUFFICES ASSUME NEW k \in Kinds \ {"photo"}, NEW n \in Names
               PROVE  rec'[k][n] <= Occ(projects, n)
    BY <1>1 DEF OneRecordPerProject, Occ
  <2>1. /\ Occ(projects, n) \in Nat
        /\ rec[k][n] <= Occ(projects, n) /\ rec[k][n] \in Nat
    BY <1>2, OccNat DEF OneRecordPerProject
  <2>2. CASE k # Written \/ n # job.name
    BY <1>4, <2>1, <2>2
  <2>3. CASE k = Written /\ n = job.name
    <3>1. Occ(projects, n) > 0
      BY <1>2, <1>3, <2>3, OccNat
    <3>2. CASE job.call \in {"saveToExistant", "resave"}
      <4>1. rec[k][n] = 0
        BY <1>1, <1>2, <2>3, <3>2, SaveCallFacts DEF JobOK
      <4>2. QED
        BY <1>4, <2>1, <2>3, <3>1, <4>1
    <3>3. CASE job.call \in {"saveDistrict", "saveBlock", "saveApartment"}
      <4>1. /\ "general" \in Kinds \ {"photo"} /\ "district" \in Kinds
            /\ "block" \in Kinds /\ "apartment" \in Kinds
        BY DEF Kinds, ChecklistParts
      <4>2. /\ rec["general"][n] \in Nat /\ rec["district"][n] \in Nat
            /\ rec["block"][n] \in Nat /\ rec["apartment"][n] \in Nat
            /\ rec["general"][n] <= Occ(projects, n)
        BY <1>2, <4>1 DEF OneRecordPerProject
      <4>3. rec[k][n] + 1 <= rec["general"][n]
        <5>1. /\ rec["district"][n] + Behind(n, {"saveDistrict"}) <= rec["general"][n]
              /\ rec["block"][n] + Behind(n, {"saveDistrict", "saveBlock"})
                   <= rec["district"][n] + Behind(n, {"saveDistrict"})
              /\ rec["apartment"][n] + Behind(n, {"saveDistrict", "saveBlock", "saveApartment"})
                   <= rec["block"][n] + Behind(n, {"saveDistrict", "saveBlock"})
          BY DEF PartsInStep
        <5>2. CASE job.call = "saveDistrict"
          <6>1. k = "district" /\ Behind(n, {"saveDistrict"}) = 1
            BY <1>1, <1>2, <2>3, <5>2, SaveCallFacts DEF Behind
          <6>2. QED
            BY <4>2, <5>1, <6>1
        <5>3. CASE job.call = "saveBlock"
          <6>1. /\ k = "block" /\ Behind(n, {"saveDistrict"}) = 0
                /\ Behind(n, {"saveDistrict", "saveBlock"}) = 1
            BY <1>1, <1>2, <2>3, <5>3, SaveCallFacts DEF Behind
          <6>2. QED
            BY <4>2, <5>1, <6>1
        <5>4. CASE job.call = "saveApartment"
          <6>1. /\ k = "apartment" /\ Behind(n, {"saveDistrict"}) = 0
                /\ Behind(n, {"saveDistrict", "saveBlock"}) = 0
                /\ Behind(n, {"saveDistrict", "saveBlock", "saveApartment"}) = 1
            BY <1>1, <1>2, <2>3, <5>4, SaveCallFacts DEF Behind
          <6>2. QED
            BY <4>2, <5>1, <6>1
        <5>5. QED
          BY <3>3, <5>2, <5>3, <5>4
      <4>4. QED
        BY <1>4, <1>3, <2>1, <2>3, <4>2, <4>3
    <3>4. CASE job.call = "savePhoto"
      BY <1>1, <1>2, <2>3, <3>4, SaveCallFacts
    <3>5. QED
      BY <1>1, <3>2, <3>3, <3>4 DEF SaveCalls
  <2>4. QED
    BY <2>2, <2>3
<1>10. PartsInStep' /\ ManagedInStep'
  BY <1>1, <1>2, AddInStep
<1>11. QED
  BY <1>5, <1>6, <1>7, <1>8, <1>9, <1>10

\* When no checklist is being written and a step zeroes all four parts of the
\* names it touches, the parts stay in step.
LEMMA ZeroInStep ==
    ASSUME TypeOK, PartsInStep, NEW Z \in SUBSET Names,
           job.call \notin {"saveDistrict", "saveBlock", "saveApartment"},
           job'.call \notin {"saveDistrict", "saveBlock", "saveApartment"},
           torn' \in {torn, torn \ Z},
           \A k \in ChecklistParts, n \in Names :
              rec'[k][n] = IF n \in Z THEN 0 ELSE rec[k][n]
    PROVE  PartsInStep'
<1>1. \A n \in Names, S \in SUBSET {"saveDistrict", "saveBlock", "saveApartment"} :
         Behind(n, S) = 0 /\ Behind(n, S)' = 0
  BY DEF Behind
<1> SUFFICES ASSUME NEW n \in Names
             PROVE  /\ rec'["district"][n] <= rec'["general"][n]
                    /\ rec'["block"][n] <= rec'["district"][n]
                    /\ rec'["apartment"][n] <= rec'["block"][n]
                    /\ n \notin torn' => rec'["apartment"][n] = rec'["general"][n]
  <2>1. \A n \in Names, k \in ChecklistParts : rec'[k][n] \in Nat
    BY DEF TypeOK, Kinds
  <2>2. QED
    BY <1>1, <2>1 DEF PartsInStep, ChecklistParts
<1>2. \A k \in ChecklistParts : rec[k][n] \in Nat
  BY DEF TypeOK, Kinds
<1>3. /\ rec["district"][n] <= rec["general"][n]
      /\ rec["block"][n] <= rec["district"][n]
      /\ rec["apartment"][n] <= rec["block"][n]
      /\ n \notin torn => rec["apartment"][n] = rec["general"][n]
  BY <1>1, <1>2 DEF PartsInStep, ChecklistParts
<1>4. QED
  BY <1>2, <1>3 DEF ChecklistParts

\* The first half of a replacement: what it deletes is what it saves next.
LEMMA EraseStep == ASSUME IInv, Erase PROVE IInv'
<1> USE DEF IInv
<1>1. /\ job.call = "erase" /\ job' = [job EXCEPT !.call = "resave"]
      /\ projects' = projects /\ managed' = managed /\ screen' = screen
      /\ details' = details /\ app' = app
      /\ torn' = IF job.feature = "checklist" THEN torn \ {job.name} ELSE torn
  BY DEF Erase
<1>2. /\ job \in Job /\ job.name \in Names /\ job.feature \in Savable
      /\ Has(projects, job.name) /\ projects \in Seq(Names)
      /\ rec \in [Kinds -> [Names -> Nat]]
  BY <1>1 DEF JobOK, TypeOK, SaveCalls
<1>3. /\ job'.call = "resave" /\ job'.feature = job.feature /\ job'.name = job.name
      /\ job' \in Job
  BY <1>1, <1>2 DEF Job, Calls, SaveCalls
<1>4. /\ rec' \in [Kinds -> [Names -> Nat]]
      /\ \A k \in Kinds, n \in Names : rec'[k][n] =
            IF k \in PartsOf(job.feature) /\ n = job.name THEN 0 ELSE rec[k][n]
  BY <1>2 DEF Erase, Cleared
<1>5. TypeOK'
  BY <1>1, <1>3, <1>4 DEF TypeOK
<1>6. ScreenOK' /\ HeldProjectsExist'
  BY <1>1 DEF ScreenOK, HeldProjectsExist, Has
<1>7. JobOK'
  <2>1. First(job.feature) \in Kinds /\ First(job.feature) \in PartsOf(job.feature)
    BY <1>2 DEF First, PartsOf, Kinds, ChecklistParts, Savable
  <2>2. QED
    BY <1>1, <1>2, <1>3, <1>4, <2>1 DEF JobOK, Has, SaveCalls
<1>8. NoOrphanRecords'
  BY <1>1, <1>4 DEF NoOrphanRecords, Has
<1>9. OneRecordPerProject'
  <2> SUFFICES ASSUME NEW k \in Kinds \ {"photo"}, NEW n \in Names
               PROVE  rec'[k][n] <= Occ(projects, n)
    BY <1>1 DEF OneRecordPerProject, Occ
  <2>1. rec[k][n] <= Occ(projects, n) /\ Occ(projects, n) \in Nat
    BY <1>2, OccNat DEF OneRecordPerProject
  <2>2. QED
    BY <1>4, <2>1
<1>10. PartsInStep'
  <2>1. CASE job.feature = "checklist"
    <3>1. \A k \in ChecklistParts, n \in Names :
             rec'[k][n] = IF n \in {job.name} THEN 0 ELSE rec[k][n]
      BY <1>4, <2>1 DEF PartsOf, Kinds
    <3>2. {job.name} \in SUBSET Names /\ torn' = torn \ {job.name}
      BY <1>1, <1>2, <2>1
    <3>3. QED
      BY <1>1, <1>3, <3>1, <3>2, ZeroInStep
  <2>2. CASE job.feature # "checklist"
    <3>1. \A k \in ChecklistParts, n \in Names :
             rec'[k][n] = IF n \in {} THEN 0 ELSE rec[k][n]
      BY <1>2, <1>4, <2>2 DEF PartsOf, Kinds, Savable, ChecklistParts
    <3>2. {} \in SUBSET Names /\ torn' = torn
      BY <1>1, <2>2
    <3>3. QED
      BY <1>1, <1>3, <3>1, <3>2, ZeroInStep
  <2>3. QED
    BY <2>1, <2>2
<1>11. ManagedInStep'
  BY <1>1, <1>3 DEF ManagedInStep
<1>12. QED
  BY <1>5, <1>6, <1>7, <1>8, <1>9, <1>10, <1>11

\* A deletion takes the projects of the name and every record that points to
\* them, whether or not the list view survives it.
LEMMA DropStep == ASSUME IInv, Drop PROVE IInv'
<1> USE DEF IInv
<1>1. /\ job.call = "drop" /\ projects' \in Without(projects, job.name)
      /\ torn' = torn \ {job.name} /\ job' = NoJob
      /\ screen' \in {screen, NoPopUp} /\ details' \in {details, NoProject}
      /\ managed' \in {managed, {}} /\ app' \in {app, "crashed"}
  BY DEF Drop, memory
<1>2. /\ job.name \in Names /\ screen = NoPopUp /\ details = NoProject
      /\ projects \in Seq(Names) /\ rec \in [Kinds -> [Names -> Nat]]
  BY <1>1 DEF JobOK, TypeOK
<1>3. /\ projects' \in Seq(Names)
      /\ \A m \in Names : Occ(projects', m) = IF m = job.name THEN 0 ELSE Occ(projects, m)
      /\ \A m \in Names \ {job.name} : Has(projects', m) <=> Has(projects, m)
  BY <1>1, <1>2, WithoutListing
<1>4. /\ rec' \in [Kinds -> [Names -> Nat]]
      /\ \A k \in Kinds, n \in Names : rec'[k][n] = IF n \in {job.name} THEN 0 ELSE rec[k][n]
  BY <1>2 DEF Drop, Cleared, Deleted
<1>5. TypeOK'
  <2>1. NoJob \in Job
    BY DEF NoJob, Job, Calls
  <2>2. QED
    BY <1>1, <1>2, <1>3, <1>4, <2>1 DEF TypeOK
<1>6. ScreenOK' /\ HeldProjectsExist'
  BY <1>1, <1>2 DEF ScreenOK, HeldProjectsExist, NoPopUp
<1>7. JobOK'
  BY <1>1 DEF JobOK, NoJob, SaveCalls
<1>8. NoOrphanRecords'
  BY <1>3, <1>4 DEF NoOrphanRecords
<1>9. OneRecordPerProject'
  <2> SUFFICES ASSUME NEW k \in Kinds \ {"photo"}, NEW n \in Names
               PROVE  rec'[k][n] <= Occ(projects', n)
    BY DEF OneRecordPerProject, Occ
  <2>1. rec[k][n] <= Occ(projects, n)
    BY DEF OneRecordPerProject
  <2>2. QED
    BY <1>3, <1>4, <2>1
<1>10. PartsInStep'
  <2>1. job'.call = "none" /\ {job.name} \in SUBSET Names
    BY <1>1, <1>2 DEF NoJob
  <2>2. \A k \in ChecklistParts, n \in Names :
           rec'[k][n] = IF n \in {job.name} THEN 0 ELSE rec[k][n]
    BY <1>4 DEF Kinds
  <2>3. QED
    BY <1>1, <2>1, <2>2, ZeroInStep
<1>11. ManagedInStep'
  BY <1>1 DEF ManagedInStep, NoJob
<1>12. QED
  BY <1>5, <1>6, <1>7, <1>8, <1>9, <1>10, <1>11
-----------------------------------------------------------------------------
(* Taps.                                                                   *)

\* The screens the handlers open meet the conditions of ScreenFits.
LEMMA ScreensFit ==
    ASSUME IInv
    PROVE  /\ ScreenFits(NoPopUp)
           /\ ScreenFits(PopUp("new", "empty", NoProject))
           /\ \A f \in Savable, p \in {"existant", "new"} : ScreenFits(PopUp(p, f, NoProject))
           /\ \A f \in Savable, n \in Names :
                 Has(projects, n) => ScreenFits(PopUp("replace", f, n))
           /\ ScreenFits([screen EXCEPT !.alert = TRUE])
           /\ ScreenFits([screen EXCEPT !.alert = FALSE])
           /\ screen.page = "existant" => ScreenFits([screen EXCEPT !.page = "newOverExistant"])
<1>1. screen \in Screen /\ ScreenOK /\ HeldProjectsExist
  BY DEF IInv, TypeOK
<1>2. [screen EXCEPT !.alert = TRUE] \in Screen /\ [screen EXCEPT !.alert = FALSE] \in Screen
      /\ [screen EXCEPT !.page = "newOverExistant"] \in Screen
  BY <1>1 DEF Screen, Pages
<1>3. /\ ScreenFits([screen EXCEPT !.alert = TRUE])
      /\ ScreenFits([screen EXCEPT !.alert = FALSE])
  <2>1. screen.page = "replace" => Has(projects, screen.name)
    BY <1>1, StoreAssumption DEF ScreenOK, HeldProjectsExist, StoreAssumption
  <2> SUFFICES ASSUME NEW b \in BOOLEAN
               PROVE  ScreenFits([screen EXCEPT !.alert = b])
    OBVIOUS
  <2> DEFINE s == [screen EXCEPT !.alert = b]
  <2>2. /\ s.page = screen.page /\ s.feature = screen.feature /\ s.name = screen.name
        /\ s \in Screen
    BY <1>1 DEF Screen
  <2> HIDE DEF s
  <2>3. ScreenFits(s)
    BY <1>1, <2>1, <2>2 DEF ScreenFits, ScreenOK
  <2>4. QED
    BY <2>3 DEF s
<1>4. screen.page = "existant" => ScreenFits([screen EXCEPT !.page = "newOverExistant"])
  BY <1>1, <1>2 DEF ScreenFits, ScreenOK, Screen
<1>5. ScreenFits(NoPopUp) /\ ScreenFits(PopUp("new", "empty", NoProject))
  BY DEF ScreenFits, Screen, Pages, NoPopUp, PopUp
<1>6. \A f \in Savable, p \in {"existant", "new"} : ScreenFits(PopUp(p, f, NoProject))
  BY DEF ScreenFits, Screen, Pages, PopUp
<1>7. \A f \in Savable, n \in Names :
         Has(projects, n) => ScreenFits(PopUp("replace", f, n))
  BY DEF ScreenFits, Screen, Pages, PopUp
<1>8. QED
  BY <1>3, <1>4, <1>5, <1>6, <1>7

\* Every row of the listing names a project.
LEMMA RowName ==
    ASSUME IInv, NEW i \in DOMAIN projects
    PROVE  projects[i] \in Names /\ Has(projects, projects[i])
<1>1. projects \in Seq(Names)
  BY DEF IInv, TypeOK
<1>2. QED
  BY <1>1 DEF Has

\* The handlers of the pop-ups are instances of the generic taps.
LEMMA PopUpCases ==
    ASSUME PopUpTap
    PROVE  \/ \E f \in Savable : TapSave(f)
           \/ TapNewProject \/ TapNewOnExistant \/ Cancel \/ SwipeDown
           \/ \E n \in Names : ConfirmNew(n)
           \/ \E i \in DOMAIN projects : SelectProject(i)
           \/ ConfirmReplace
           \/ \E i \in DOMAIN projects : DeleteProject(i)
<1>1. TapOnSave => \E f \in Savable : TapSave(f)
  BY DEF TapOnSave, TapOnSaveChecklist, TapOnSaveCredit, TapOnSaveRentability,
     TapOnSaveAdress, Savable
<1>2. \A n : TapOnCreate(n) => ConfirmNew(n)
  BY DEF TapOnCreate, CreateNewProject, AddChecklistToNewProject, AddCreditToNewProject,
     AddRentabilityToNewProject, AddAdressToNewProject
<1>3. \A i : TapOnProject(i) => SelectProject(i)
  BY DEF TapOnProject, AddChecklistToExistantProject, AddCreditToExistantProject,
     AddRentabilityToExistantProject, AddAdressToExistantProject
<1>4. TapOnYes => ConfirmReplace
  BY DEF TapOnYes, ReplaceProjectChecklist, ReplaceCredit, ReplaceRentability, ReplaceAdress
<1>5. QED
  BY <1>1, <1>2, <1>3, <1>4 DEF PopUpTap

\* The taps of the app: those of the pop-ups and those of the details.
LEMMA TapCases ==
    ASSUME Tap
    PROVE  \/ \E f \in Savable : TapSave(f)
           \/ TapNewProject \/ TapNewOnExistant \/ Cancel \/ SwipeDown
           \/ \E n \in Names : ConfirmNew(n)
           \/ \E i \in DOMAIN projects : SelectProject(i)
           \/ ConfirmReplace
           \/ \E i \in DOMAIN projects : OpenDetails(i)
           \/ CloseDetails \/ PickPhoto
           \/ \E i \in DOMAIN projects : DeleteProject(i)
BY PopUpCases DEF Tap, DetailsTap

\* Whatever the user taps, the invariant holds when the handler has started.
LEMMA TapStep == ASSUME IInv, Tap PROVE IInv'
<1> USE ScreensFit
<1>0. screen \in Screen /\ job \in Job /\ ScreenOK /\ HeldProjectsExist
  BY DEF IInv, TypeOK
<1>1. ASSUME NEW f \in Savable, TapSave(f) PROVE IInv'
  <2>1. /\ ScreenFits(PopUp(IF projects = <<>> THEN "new" ELSE "existant", f, NoProject))
        /\ Idle /\ Show(PopUp(IF projects = <<>> THEN "new" ELSE "existant", f, NoProject))
    BY <1>1 DEF TapSave
  <2>2. QED
    BY <2>1, ShowStep
<1>2. CASE TapNewProject
  BY <1>2, ShowStep DEF TapNewProject
<1>3. CASE TapNewOnExistant
  <2>1. CASE screen.feature = "rentability"
    BY <1>3, <2>1, ShowStep DEF TapNewOnExistant
  <2>2. CASE screen.feature # "rentability"
    BY <1>3, <2>2, ShowStep DEF TapNewOnExistant
  <2>3. QED
    BY <2>1, <2>2
<1>4. ASSUME NEW n \in Names, ConfirmNew(n) PROVE IInv'
  <2>1. Idle /\ screen.page \in {"new", "newOverExistant"}
    BY <1>4 DEF ConfirmNew
  <2>2. CASE ~isMyProjectNameUnique(n)
    BY <1>4, <2>1, <2>2, ShowStep DEF ConfirmNew
  <2>3. CASE isMyProjectNameUnique(n)
    <3>1. JobFits(Run("saveNew", screen.feature, n))
      BY <1>0 DEF JobFits, Run, Job, Calls, Screen
    <3>2. CASE screen.page = "new"
      <4>1. Start(Run("saveNew", screen.feature, n), {NoPopUp})
        BY <1>4, <2>3, <3>2 DEF ConfirmNew
      <4>2. QED
        BY <2>1, <3>1, <4>1, StartStep
    <3>3. CASE screen.page # "new"
      <4>1. Start(Run("saveNew", screen.feature, n), ListMayStay)
        BY <1>4, <2>3, <3>3 DEF ConfirmNew
      <4>2. \A s \in ListMayStay : ScreenFits(s)
        BY <1>0, <2>1, <3>3 DEF ListMayStay, ScreenOK
      <4>3. QED
        BY <2>1, <3>1, <4>1, <4>2, StartStep
    <3>4. QED
      BY <3>2, <3>3
  <2>4. QED
    BY <2>2, <2>3
<1>5. ASSUME NEW i \in DOMAIN projects, SelectProject(i) PROVE IInv'
  <2>1. Idle /\ screen.page = "existant" /\ screen.feature \in Savable
        /\ projects[i] \in Names /\ Has(projects, projects[i])
    BY <1>0, <1>5, RowName DEF SelectProject, ScreenOK
  <2>2. CASE projects[i] \in Quoted
    <3>1. Stop("crashed") /\ UNCHANGED <<projects, rec>>
      BY <1>5, <2>2 DEF SelectProject
    <3>2. QED
      BY <3>1, StopStep
  <2>3. CASE projects[i] \notin Quoted /\ AlreadyHas(screen.feature, projects[i])
    <3>1. Show(PopUp("replace", screen.feature, projects[i]))
      BY <1>5, <2>3 DEF SelectProject
    <3>2. ScreenFits(PopUp("replace", screen.feature, projects[i]))
      BY <2>1
    <3>3. QED
      BY <2>1, <3>1, <3>2, ShowStep
  <2>4. CASE projects[i] \notin Quoted /\ ~(AlreadyHas(screen.feature, projects[i]))
    <3>1. rec[First(screen.feature)][projects[i]] = 0
      <4>1. First(screen.feature) \in Kinds
        BY <2>1 DEF First, Kinds, ChecklistParts, Savable
      <4>2. rec[First(screen.feature)][projects[i]] \in Nat
        BY <2>1, <4>1 DEF IInv, TypeOK
      <4>3. QED
        BY <2>4, <4>2 DEF AlreadyHas
    <3>2. JobFits(Run("saveToExistant", screen.feature, projects[i]))
      BY <2>1, <3>1 DEF JobFits, Run, Job, Calls, SaveCalls, Savable
    <3>3. Start(Run("saveToExistant", screen.feature, projects[i]), {NoPopUp})
      BY <1>5, <2>4 DEF SelectProject
    <3>4. QED
      BY <2>1, <3>2, <3>3, StartStep
  <2>5. QED
    BY <2>2, <2>3, <2>4
<1>6. CASE ConfirmReplace
  <2>1. /\ Idle /\ screen.page = "replace"
        /\ Start(Run("erase", screen.feature, screen.name), ListMayStay)
    BY <1>6 DEF ConfirmReplace
  <2>2. screen.feature \in Savable /\ screen.name \in Names /\ Has(projects, screen.name)
    BY <1>0, <2>1, StoreAssumption DEF ScreenOK, HeldProjectsExist, StoreAssumption
  <2>3. JobFits(Run("erase", screen.feature, screen.name))
    BY <2>2 DEF JobFits, Run, Job, Calls, Savable
  <2>4. \A s \in ListMayStay : ScreenFits(s)
    BY <2>2 DEF ListMayStay
  <2>5. QED
    BY <2>1, <2>3, <2>4, StartStep
<1>7. ASSUME Cancel \/ SwipeDown PROVE IInv'
  <2>1. Idle /\ Show(Under)
    BY <1>7 DEF Cancel, SwipeDown
  <2>2. ScreenFits(Under)
    <3>1. CASE screen.alert
      BY <3>1 DEF Under
    <3>2. CASE ~screen.alert /\ screen.page \in {"replace", "newOverExistant"}
      <4>1. screen.feature \in Savable
        BY <1>0, <3>2 DEF ScreenOK
      <4>2. QED
        BY <3>2, <4>1 DEF Under
    <3>3. CASE ~screen.alert /\ screen.page \notin {"replace", "newOverExistant"}
      BY <3>3 DEF Under
    <3>4. QED
      BY <3>1, <3>2, <3>3
  <2>3. QED
    BY <2>1, <2>2, ShowStep
<1>8. ASSUME NEW i \in DOMAIN projects, OpenDetails(i) PROVE IInv'
  <2>1. projects[i] \in Names /\ Has(projects, projects[i])
    BY RowName
  <2>2. QED
    BY <1>8, <2>1, DetailsStep DEF OpenDetails
<1>9. CASE CloseDetails
  BY <1>9, DetailsStep DEF CloseDetails
<1>10. CASE PickPhoto
  <2>1. /\ Idle /\ details # NoProject
        /\ Start(Run("savePhoto", "empty", details), {NoPopUp})
    BY <1>10 DEF PickPhoto
  <2>2. details \in Names /\ Has(projects, details)
    BY <1>0, <2>1 DEF HeldProjectsExist, IInv, TypeOK
  <2>3. JobFits(Run("savePhoto", "empty", details))
    BY <2>2 DEF JobFits, Run, Job, Calls, SaveCalls
  <2>4. QED
    BY <2>1, <2>3, StartStep
<1>11. ASSUME NEW i \in DOMAIN projects, DeleteProject(i) PROVE IInv'
  <2>1. projects[i] \in Names /\ Has(projects, projects[i])
    BY RowName
  <2>2. CASE projects[i] \in Quoted
    <3>1. Stop("crashed") /\ UNCHANGED <<projects, rec>>
      BY <1>11, <2>2 DEF DeleteProject
    <3>2. QED
      BY <3>1, StopStep
  <2>3. CASE projects[i] \notin Quoted
    <3>1. /\ Idle /\ details = NoProject
          /\ Start(Run("drop", "empty", projects[i]), {NoPopUp})
      BY <1>11, <2>3 DEF DeleteProject
    <3>2. JobFits(Run("drop", "empty", projects[i]))
      BY <2>1, <3>1 DEF JobFits, Run, Job, Calls, Start
    <3>3. QED
      BY <3>1, <3>2, StartStep
  <2>4. QED
    BY <2>2, <2>3
<1>12. QED
  BY <1>1, <1>2, <1>3, <1>4, <1>5, <1>6, <1>7, <1>8, <1>9, <1>10, <1>11, TapCases

-----------------------------------------------------------------------------
(* The specification.                                                      *)

\* The database starts empty and consistent.
LEMMA InitInv == Init => IInv
<1> SUFFICES ASSUME Init PROVE IInv
  OBVIOUS
<1> USE DEF Init
<1>1. TypeOK /\ ScreenOK /\ JobOK /\ HeldProjectsExist
  BY DEF TypeOK, ScreenOK, JobOK, HeldProjectsExist, NoPopUp, NoJob, Screen, Pages,
         Job, Calls, SaveCalls
<1>2. \A n \in Names : Occ(projects, n) \in Nat
  BY <1>1, OccNat DEF TypeOK
<1>3. NoOrphanRecords /\ OneRecordPerProject
  BY <1>2 DEF NoOrphanRecords, OneRecordPerProject
<1>4. PartsInStep /\ ManagedInStep
  BY DEF PartsInStep, Behind, ManagedInStep, NoJob, Kinds, ChecklistParts
<1>5. QED
  BY <1>1, <1>3, <1>4 DEF IInv

\* The repository methods are instances of the generic transactions.
LEMMA CallCases == Call => SaveNew \/ SaveRecord \/ Raise \/ Erase \/ Drop
BY DEF Call, SaveCall, EraseCall, saveEmptyNewProject, saveNewChecklistGeneral,
   saveNewCreditSimulation, saveNewRentabilitySimulation, saveMapAdressWithNewProject,
   saveChecklistGeneralToExistantProject, saveChecklistDistrict, saveChecklistApartmentBlock,
   saveChecklistApartment, addCreditSimulationToExistantProject,
   addRentabilitySimulationToExistantProject, saveMapAdressInExistantProject, didFinishPickingMedia,
   deleteChecklist, deleteCreditSimulation, deleteRentabilitySimulation, deleteProjectAdress

\* Every step of the app, taps, transactions, exceptions, kills and relaunches,
\* keeps the invariant.
LEMMA NextInv == IInv /\ [Next]_vars => IInv'
<1> SUFFICES ASSUME IInv, [Next]_vars PROVE IInv'
  OBVIOUS
<1>1. CASE Tap
  BY <1>1, TapStep
<1>2. CASE SaveNew
  BY <1>2, SaveNewStep
<1>3. CASE SaveRecord
  BY <1>3, SaveRecordStep
<1>4. CASE Raise
  BY <1>4, StopStep DEF Raise
<1>5. CASE Erase
  BY <1>5, EraseStep
<1>6. CASE Drop
  BY <1>6, DropStep
<1>7. CASE Kill
  BY <1>7, StopStep DEF Kill
<1>8. CASE Relaunch
  BY <1>8, QuietStep DEF Relaunch, memory
<1>9. CASE UNCHANGED vars
  BY <1>9, QuietStep DEF vars, IInv, TypeOK
<1>10. CASE Abort
  BY <1>10, StopStep DEF Abort
<1>11. QED
  BY <1>1, <1>2, <1>3, <1>4, <1>5, <1>6, <1>7, <1>8, <1>9, <1>10, CallCases DEF Next

\* The invariant holds in every state of every behaviour.
THEOREM Invariance == Spec => []IInv
<1>1. Init => IInv
  BY InitInv
<1>2. IInv /\ [Next]_vars => IInv'
  BY NextInv
<1>3. QED
  BY <1>1, <1>2, PTL DEF Spec

\* Every variable keeps its type.
THEOREM TypeCorrect == Spec => []TypeOK
<1>1. IInv => TypeOK
  BY DEF IInv
<1>2. QED
  BY <1>1, Invariance, PTL

\* No record of any table ever outlives its project, whatever crashes and kills
\* do between the transactions of a handler.
THEOREM NoOrphans == Spec => []NoOrphanRecords
<1>1. IInv => NoOrphanRecords
  BY DEF IInv
<1>2. QED
  BY <1>1, Invariance, PTL

\* Photos apart, no project ever gets two records of one table.
THEOREM OneRecord == Spec => []OneRecordPerProject
<1>1. IInv => OneRecordPerProject
  BY DEF IInv
<1>2. QED
  BY <1>1, Invariance, PTL

\* The project a screen holds on to is never one that was deleted.
THEOREM HeldExist == Spec => []HeldProjectsExist
<1>1. IInv => HeldProjectsExist
  BY DEF IInv
<1>2. QED
  BY <1>1, Invariance, PTL

\* The parts of the checklists of a name fill in order.
LEMMA InOrder == ASSUME IInv PROVE ChecklistInOrder
<1> SUFFICES ASSUME NEW n \in Names
             PROVE  /\ rec["apartment"][n] <= rec["block"][n]
                    /\ rec["block"][n] <= rec["district"][n]
                    /\ rec["district"][n] <= rec["general"][n]
  BY DEF ChecklistInOrder
<1>1. \A k \in ChecklistParts : rec[k][n] \in Nat
  BY DEF IInv, TypeOK, Kinds
<1>2. /\ rec["district"][n] + Behind(n, {"saveDistrict"}) <= rec["general"][n]
      /\ rec["block"][n] + Behind(n, {"saveDistrict", "saveBlock"})
           <= rec["district"][n] + Behind(n, {"saveDistrict"})
      /\ rec["apartment"][n] + Behind(n, {"saveDistrict", "saveBlock", "saveApartment"})
           <= rec["block"][n] + Behind(n, {"saveDistrict", "saveBlock"})
  BY DEF IInv, PartsInStep
<1>3. QED
  BY <1>1, <1>2 DEF Behind, ChecklistParts

\* A later part of a checklist never stands without its earlier parts, wherever
\* the app was stopped.
THEOREM PartsInOrder == Spec => []ChecklistInOrder
<1>1. IInv => ChecklistInOrder
  BY InOrder
<1>2. QED
  BY <1>1, Invariance, PTL

\* Between handlers, a checklist that no kill cut has all of its parts.
THEOREM WholeChecklists == Spec => []ChecklistComplete
<1>1. IInv => ChecklistComplete
  <2> SUFFICES ASSUME IInv, job = NoJob, NEW n \in Names \ torn
               PROVE  rec["general"][n] = rec["apartment"][n]
    BY DEF ChecklistComplete
  <2>1. Behind(n, {"saveDistrict", "saveBlock", "saveApartment"}) = 0
    BY DEF Behind, NoJob
  <2>2. rec["apartment"][n] \in Nat
    BY DEF IInv, TypeOK, Kinds, ChecklistParts
  <2>3. QED
    BY <2>1, <2>2 DEF IInv, PartsInStep
<1>2. QED
  BY <1>1, Invariance, PTL

\* Only a kill of the process cuts a checklist: the exception a save may raise
\* comes before its first transaction.
THEOREM OnlyKillsTear == Spec => CrashNeverTears
<1>1. IInv /\ [Next]_vars => [torn' \subseteq torn \/ app' = "killed"]_vars
  <2> SUFFICES ASSUME IInv, Next PROVE torn' \subseteq torn \/ app' = "killed"
    OBVIOUS
  <2>1. CASE Tap
    <3>1. CASE \E i \in DOMAIN projects : SelectProject(i) \/ DeleteProject(i)
      BY <3>1 DEF SelectProject, DeleteProject, Idle, NoJob, Stop, Show, Start
    <3>2. CASE \E f \in Savable : TapSave(f)
      BY <3>2 DEF TapSave, Show
    <3>3. CASE \E n \in Names : ConfirmNew(n)
      BY <3>3 DEF ConfirmNew, Show, Start
    <3>4. CASE TapNewProject \/ TapNewOnExistant \/ ConfirmReplace \/ Cancel \/ SwipeDown
      BY <3>4 DEF TapNewProject, TapNewOnExistant, ConfirmReplace, Cancel, SwipeDown, Show, Start
    <3>5. CASE CloseDetails \/ PickPhoto \/ \E i \in DOMAIN projects : OpenDetails(i)
      BY <3>5 DEF OpenDetails, CloseDetails, PickPhoto, Start
    <3>6. QED
      BY <2>1, <3>1, <3>2, <3>3, <3>4, <3>5, TapCases
  <2>2. CASE SaveNew \/ SaveRecord \/ Erase \/ Drop
    BY <2>2 DEF SaveNew, SaveRecord, Erase, Drop
  <2>3. CASE Raise
    <3>1. job.call \in SaveCalls \cup {"saveNew"} /\ (job.call = "saveNew" => job.feature # "empty")
      BY <2>3 DEF Raise, SaveCalls
    <3>2. job.call \notin {"saveDistrict", "saveBlock", "saveApartment"}
      BY <2>3, <3>1, SaveCallFacts DEF Raise, Raises, IInv, ManagedInStep
    <3>3. QED
      BY <2>3, <3>2 DEF Raise, Stop
  <2>4. CASE Kill \/ Abort \/ Relaunch
    BY <2>4 DEF Kill, Abort, Relaunch, Stop, Idle, NoJob
  <2>5. QED
    BY <2>1, <2>2, <2>3, <2>4, CallCases DEF Next
<1>2. QED
  BY <1>1, Invariance, PTL DEF Spec, CrashNeverTears

---------------------------------------------------------------------------------
(* The project database implements the project library: whatever screens,    *)
(* handlers, exceptions and kills do, a reader of the saved projects tab     *)
(* sees projects and features come and go one at a time, as ProjectLibrary   *)
(* says.  Every step of ProjectStore is one step of the library or none.     *)

\* What the library sees of the tables.
Saved == [f \in Savable \cup {"photo"} |-> rec[First(f)]]

\* Two features never share their first table, which is one of the eight.
LEMMA FirstTable ==
    /\ \A f \in Savable \cup {"photo"} : First(f) \in Kinds
    /\ \A f, g \in Savable \cup {"photo"} : First(f) = First(g) => f = g
BY DEF First, Savable, Kinds, ChecklistParts

\* A record more in the first table of a feature is one more of the feature,
\* and the later parts of a checklist do not count.
LEMMA AddMaps ==
    ASSUME TypeOK, NEW k \in Kinds, NEW n \in Names, Add(k, n)
    PROVE  /\ \A f \in Savable \cup {"photo"} :
                 k = First(f) => Saved' = [Saved EXCEPT ![f][n] = @ + 1]
           /\ k \in {"district", "block", "apartment"} => Saved' = Saved
<1>1. rec' = [rec EXCEPT ![k] = [rec[k] EXCEPT ![n] = rec[k][n] + 1]]
  BY DEF Add
<1>2. ASSUME NEW f \in Savable \cup {"photo"}, k = First(f)
      PROVE  Saved' = [Saved EXCEPT ![f][n] = @ + 1]
  <2>1. \A g \in Savable \cup {"photo"} :
           rec'[First(g)] = IF g = f THEN [rec[k] EXCEPT ![n] = rec[k][n] + 1]
                                     ELSE rec[First(g)]
    BY <1>1, <1>2, FirstTable DEF TypeOK
  <2>2. QED
    BY <1>2, <2>1 DEF Saved
<1>3. ASSUME k \in {"district", "block", "apartment"} PROVE Saved' = Saved
  <2>1. \A g \in Savable \cup {"photo"} : First(g) # k
    BY <1>3 DEF First, Savable
  <2>2. \A g \in Savable \cup {"photo"} : rec'[First(g)] = rec[First(g)]
    BY <1>1, <2>1, FirstTable DEF TypeOK
  <2>3. QED
    BY <2>2 DEF Saved
<1>4. QED
  BY <1>2, <1>3

\* A step that leaves the listing and the tables alone does not show.
LEMMA Unseen ==
    ASSUME UNCHANGED <<projects, rec>>
    PROVE  UNCHANGED Library!vars
BY DEF Library!vars

\* saveNew...: a project appears, empty or with its one feature.
LEMMA SaveNewMaps ==
    ASSUME IInv, SaveNew
    PROVE  \E n \in Names : Library!Create(n)
<1>1. job.name \in Names /\ TypeOK /\ job.feature \in Savable \cup {"empty"}
  BY DEF SaveNew, IInv, JobOK, TypeOK, Job
<1>2. projects' = Append(projects, job.name)
  BY DEF SaveNew
<1>3. CASE job.feature = "empty"
  <2>1. rec' = rec
    BY <1>3 DEF SaveNew
  <2>2. Library!Create(job.name)
    BY <1>2, <2>1 DEF Library!Create
  <2>3. QED
    BY <1>1, <2>2
<1>4. CASE job.feature # "empty"
  <2>1. Add(Written, job.name) /\ Written = First(job.feature) /\ Written \in Kinds
    BY <1>4, SaveCallFacts DEF SaveNew
  <2>2. job.feature \in Savable
    BY <1>1, <1>4
  <2>3. Saved' = [Saved EXCEPT ![job.feature][job.name] = @ + 1]
    BY <1>1, <2>1, <2>2, AddMaps
  <2>4. job.feature \in Library!Things \ {"photo"}
    BY <2>2 DEF Savable, Library!Things
  <2>5. Library!Create(job.name)
    BY <1>2, <2>3, <2>4 DEF Library!Create, Saved
  <2>6. QED
    BY <1>1, <2>5
<1>5. QED
  BY <1>3, <1>4

\* The other saves: a feature the project did not have, a photo, or a part of
\* a checklist that already counts.
LEMMA SaveRecordMaps ==
    ASSUME IInv, SaveRecord
    PROVE  \/ \E n \in Names, f \in Library!Things : Library!Attach(f, n)
           \/ UNCHANGED Library!vars
<1>1. /\ job.name \in Names /\ TypeOK /\ Written \in Kinds
      /\ Has(projects, job.name) /\ job.call \in SaveCalls
  BY SaveCallFacts DEF SaveRecord, IInv, JobOK, SaveCalls
<1>2. Add(Written, job.name) /\ projects' = projects
  BY DEF SaveRecord
<1>3. CASE job.call \in {"saveToExistant", "resave"}
  <2>1. job.feature \in Savable /\ Written = First(job.feature)
        /\ rec[First(job.feature)][job.name] = 0
    BY <1>3, SaveCallFacts DEF IInv, JobOK, SaveCalls
  <2>2. Saved' = [Saved EXCEPT ![job.feature][job.name] = @ + 1]
    BY <1>1, <1>2, <2>1, AddMaps
  <2>3. Saved[job.feature][job.name] = 0
    BY <2>1 DEF Saved
  <2>4. Library!Listed(projects, job.name)
    BY <1>1 DEF Has, Library!Listed
  <2>5. Library!Attach(job.feature, job.name)
    BY <1>2, <2>2, <2>3, <2>4 DEF Library!Attach, Saved
  <2>6. job.feature \in Library!Things
    BY <2>1 DEF Savable, Library!Things
  <2>7. QED
    BY <1>1, <2>5, <2>6
<1>4. CASE job.call = "savePhoto"
  <2>1. Written = "photo" /\ First("photo") = "photo"
    BY <1>4, SaveCallFacts DEF SaveCalls, First
  <2>2. Saved' = [Saved EXCEPT !["photo"][job.name] = @ + 1]
    BY <1>1, <1>2, <2>1, AddMaps
  <2>3. Library!Listed(projects, job.name)
    BY <1>1 DEF Has, Library!Listed
  <2>4. Library!Attach("photo", job.name)
    BY <1>2, <2>2, <2>3 DEF Library!Attach, Saved
  <2>5. QED
    BY <1>1, <2>4 DEF Library!Things
<1>5. CASE job.call \in {"saveDistrict", "saveBlock", "saveApartment"}
  <2>1. Written \in {"district", "block", "apartment"}
    BY <1>5, SaveCallFacts DEF SaveCalls
  <2>2. Saved' = Saved
    BY <1>1, <1>2, <2>1, AddMaps
  <2>3. QED
    BY <1>2, <2>2 DEF Library!vars, Saved
<1>6. QED
  BY <1>1, <1>3, <1>4, <1>5 DEF SaveCalls

\* The first half of a replacement takes the feature, if it is still there.
LEMMA EraseMaps ==
    ASSUME IInv, Erase
    PROVE  \/ \E n \in Names, f \in Library!Things : Library!Erase(f, n)
           \/ UNCHANGED Library!vars
<1> DEFINE f == job.feature
           n == job.name
<1>1. n \in Names /\ f \in Savable /\ TypeOK /\ projects' = projects
  BY DEF Erase, IInv, JobOK
<1>2. \A g \in Savable \cup {"photo"} : First(g) \in PartsOf(f) <=> g = f
  BY <1>1 DEF First, PartsOf, Savable, ChecklistParts
<1>3. \A g \in Savable \cup {"photo"} :
         rec'[First(g)] = IF g = f THEN [rec[First(g)] EXCEPT ![n] = 0] ELSE rec[First(g)]
  BY <1>2, FirstTable DEF Erase, Cleared
<1>4. Saved' = [Saved EXCEPT ![f][n] = 0]
  BY <1>1, <1>3 DEF Saved
<1>5. Saved[f] \in [Names -> Nat]
  BY <1>1, FirstTable DEF TypeOK, Saved
<1>6. CASE Saved[f][n] > 0
  <2>1. f # "photo" /\ f \in Library!Things
    BY <1>1 DEF Savable, Library!Things
  <2>2. Library!Erase(f, n)
    BY <1>1, <1>4, <1>6, <2>1 DEF Library!Erase, Saved
  <2>3. QED
    BY <1>1, <2>1, <2>2
<1>7. CASE ~(Saved[f][n] > 0)
  <2>1. Saved[f][n] = 0
    BY <1>1, <1>5, <1>7
  <2>2. Saved' = Saved
    BY <1>1, <1>4, <1>5, <2>1 DEF Saved
  <2>3. QED
    BY <1>1, <2>2 DEF Library!vars, Saved
<1>8. QED
  BY <1>6, <1>7

\* A deletion takes every project of the name and all that was saved for it.
LEMMA DropMaps ==
    ASSUME IInv, Drop
    PROVE  \E n \in Names : Library!Delete(n)
<1>1. /\ job.name \in Names /\ TypeOK /\ Has(projects, job.name)
      /\ projects' \in Without(projects, job.name)
      /\ rec' = Cleared(Kinds, job.name)
  BY DEF Drop, Deleted, IInv, JobOK
<1>2. \A m \in Names : Occ(projects', m) = IF m = job.name THEN 0 ELSE Occ(projects, m)
  BY <1>1, WithoutListing DEF TypeOK
<1>3. /\ Library!Count(projects', job.name) = 0
      /\ \A m \in Names \ {job.name} :
            Library!Count(projects', m) = Library!Count(projects, m)
  BY <1>1, <1>2 DEF Library!Count, Occ, Cardinality, Library!Cardinality
<1>4. Library!Listed(projects, job.name)
  BY <1>1 DEF Has, Library!Listed
<1>5. \A f \in Savable \cup {"photo"} :
         rec'[First(f)] = [rec[First(f)] EXCEPT ![job.name] = 0]
  BY <1>1, FirstTable DEF Cleared
<1>6. Library!Things = Savable \cup {"photo"}
  BY DEF Library!Things, Savable
<1>7. Library!Delete(job.name)
  BY <1>3, <1>4, <1>5, <1>6 DEF Library!Delete
<1>8. QED
  BY <1>1, <1>7

\* A tap starts a handler or ends the process, and neither writes.
LEMMA TapUnseen == ASSUME Tap PROVE UNCHANGED <<projects, rec>>
<1>1. \A i : SelectProject(i) \/ DeleteProject(i) => UNCHANGED <<projects, rec>>
  BY DEF SelectProject, DeleteProject, Show, Start
<1>2. \A f : TapSave(f) => UNCHANGED <<projects, rec>>
  BY DEF TapSave, Show
<1>3. \A n : ConfirmNew(n) => UNCHANGED <<projects, rec>>
  BY DEF ConfirmNew, Show, Start
<1>4. TapNewProject \/ TapNewOnExistant \/ ConfirmReplace \/ Cancel \/ SwipeDown
         => UNCHANGED <<projects, rec>>
  BY DEF TapNewProject, TapNewOnExistant, ConfirmReplace, Cancel, SwipeDown, Show, Start
<1>5. CloseDetails \/ PickPhoto \/ (\E i \in DOMAIN projects : OpenDetails(i))
         => UNCHANGED <<projects, rec>>
  BY DEF OpenDetails, CloseDetails, PickPhoto, Start
<1>6. QED
  BY <1>1, <1>2, <1>3, <1>4, <1>5, TapCases

\* Every step is one step of the library or does not show.
LEMMA StepMaps == ASSUME IInv, [Next]_vars PROVE [Library!Next]_(Library!vars)
<1>1. CASE Tap \/ Raise \/ Kill \/ Abort \/ Relaunch \/ UNCHANGED vars
  <2>1. UNCHANGED <<projects, rec>>
    BY <1>1, TapUnseen DEF Raise, Kill, Abort, Relaunch, vars
  <2>2. QED
    BY <2>1, Unseen
<1>2. CASE SaveNew
  BY <1>2, SaveNewMaps DEF Library!Next
<1>3. CASE SaveRecord
  BY <1>3, SaveRecordMaps DEF Library!Next
<1>4. CASE Erase
  BY <1>4, EraseMaps DEF Library!Next
<1>5. CASE Drop
  BY <1>5, DropMaps DEF Library!Next
<1>6. QED
  BY <1>1, <1>2, <1>3, <1>4, <1>5, CallCases DEF Next

\* The database starts as an empty library.
LEMMA InitMaps == Init => Library!Init
<1> SUFFICES ASSUME Init PROVE Library!Init
  OBVIOUS
<1>1. \A f \in Savable \cup {"photo"} : rec[First(f)] = [n \in Names |-> 0]
  BY FirstTable DEF Init
<1>2. Library!Things = Savable \cup {"photo"}
  BY DEF Library!Things, Savable
<1>3. QED
  BY <1>1, <1>2 DEF Init, Library!Init

\* The database with its pop-ups, crashes and kills implements the library:
\* nothing a user saved changes but by saving, replacing or deleting it.
THEOREM LibraryRefinement == Spec => ImplementsLibrary
<1>1. Init => Library!Init
  BY InitMaps
<1>2. IInv /\ [Next]_vars => [Library!Next]_(Library!vars)
  BY StepMaps
<1>3. QED
  BY <1>1, <1>2, Invariance, PTL DEF Spec, ImplementsLibrary, Library!Spec

-----------------------------------------------------------------------------
(* What the steps of the database do to the address records.               *)

\* A feature is looked up in its own table; only addresses in that of addresses.
LEMMA AdressTable ==
    ASSUME NEW f \in Savable
    PROVE  (First(f) = "adress" <=> f = "adress") /\ ("adress" \in PartsOf(f) <=> f = "adress")
BY DEF First, Savable, PartsOf, ChecklistParts

\* What a step of the database may do as far as addresses are concerned, other
\* than the tap that opens the pop-up and the calls that save: no count grows,
\* a pop-up or a handler about an address comes from one about the same, and an
\* app that stops holds neither.
QuietForAdresses ==
    /\ \A n \in Names : rec'["adress"][n] > 0 => rec["adress"][n] > 0
    /\ "adress" \in {screen'.feature, job'.feature} => AdressInHand
    /\ screen'.page = "replace" /\ screen'.feature = "adress" =>
          \/ screen.page = "replace" /\ screen.feature = "adress" /\ screen.name = screen'.name
          \/ screen'.name \in Names /\ rec["adress"][screen'.name] > 0
    /\ job'.call \in {"erase", "resave"} /\ job'.feature = "adress" =>
          \/ screen.page = "replace" /\ screen.feature = "adress" /\ screen.name = job'.name
          \/ job.call = "erase" /\ job.feature = "adress" /\ job.name = job'.name
          \/ job' = job
    /\ app' # "running" => job' = NoJob /\ screen' = NoPopUp

\* A process that ends holds nothing.
LEMMA StopIsQuiet ==
    ASSUME NEW how, Stop(how), UNCHANGED <<projects, rec>>
    PROVE  QuietForAdresses
BY DEF Stop, QuietForAdresses, NoPopUp, NoJob

\* A pop-up that opens or closes.
LEMMA ShowIsQuiet ==
    ASSUME IInv, Idle, NEW s, Show(s),
           s.feature = "adress" => screen.feature = "adress",
           s.page = "replace" /\ s.feature = "adress" =>
              \/ screen.page = "replace" /\ screen.name = s.name
              \/ s.name \in Names /\ rec["adress"][s.name] > 0
    PROVE  QuietForAdresses
BY DEF Show, Idle, QuietForAdresses, NoJob, AdressInHand

\* A handler that starts.
LEMMA StartIsQuiet ==
    ASSUME IInv, Idle, NEW j, NEW closed, Start(j, closed),
           j.feature = "adress" => screen.feature = "adress",
           j.call \in {"erase", "resave"} /\ j.feature = "adress" =>
              screen.page = "replace" /\ screen.name = j.name,
           \A s \in closed : s.page # "replace" /\ (s.feature = "adress" => screen.feature = "adress")
    PROVE  QuietForAdresses
<1>1. screen' \in closed /\ job' = j /\ rec' = rec /\ app' = "running"
  BY DEF Start, Idle
<1>2. QED
  BY <1>1 DEF QuietForAdresses, AdressInHand

\* Whatever is tapped in the app but the add button of the map.
LEMMA TapIsQuiet ==
    ASSUME IInv, Tap, ~TapOnSaveAdress
    PROVE  QuietForAdresses
<1>0. screen \in Screen /\ ScreenOK
  BY DEF IInv, TypeOK
<1>1. ASSUME NEW f \in Savable, TapSave(f) PROVE QuietForAdresses
  <2> DEFINE p == IF projects = <<>> THEN "new" ELSE "existant"
  <2>1. f # "adress"
    BY <1>1 DEF TapOnSaveAdress
  <2>2. PopUp(p, f, NoProject).feature # "adress"
    BY <2>1 DEF PopUp
  <2>3. Idle /\ Show(PopUp(p, f, NoProject))
    BY <1>1 DEF TapSave
  <2> HIDE DEF p
  <2>4. QED
    BY <2>2, <2>3, ShowIsQuiet
<1>2. CASE TapNewProject
  <2>1. PopUp("new", "empty", NoProject).feature # "adress"
    BY DEF PopUp
  <2>2. QED
    BY <1>2, <2>1, ShowIsQuiet DEF TapNewProject
<1>3. CASE TapNewOnExistant
  <2>1. CASE screen.feature = "rentability"
    <3>1. Idle /\ Show(NoPopUp)
      BY <1>3, <2>1 DEF TapNewOnExistant
    <3>2. QED
      BY <3>1, ShowIsQuiet DEF NoPopUp
  <2>2. CASE screen.feature # "rentability"
    <3>1. Idle /\ Show([screen EXCEPT !.page = "newOverExistant"])
      BY <1>3, <2>2 DEF TapNewOnExistant
    <3>2. /\ [screen EXCEPT !.page = "newOverExistant"].feature = screen.feature
          /\ [screen EXCEPT !.page = "newOverExistant"].page = "newOverExistant"
      BY <1>0 DEF Screen
    <3>3. QED
      BY <3>1, <3>2, ShowIsQuiet
  <2>3. QED
    BY <2>1, <2>2
<1>4. \A s \in ListMayStay : s.page # "replace" /\ (s.feature = "adress" => screen.feature = "adress")
  BY DEF ListMayStay, NoPopUp, PopUp
<1>5. ASSUME NEW n \in Names, ConfirmNew(n) PROVE QuietForAdresses
  <2>1. Idle /\ screen.page \in {"new", "newOverExistant"}
    BY <1>5 DEF ConfirmNew
  <2>2. CASE ~isMyProjectNameUnique(n)
    <3>1. Show([screen EXCEPT !.alert = TRUE])
      BY <1>5, <2>2 DEF ConfirmNew
    <3>2. /\ [screen EXCEPT !.alert = TRUE].feature = screen.feature
          /\ [screen EXCEPT !.alert = TRUE].page # "replace"
      BY <1>0, <2>1 DEF Screen
    <3>3. QED
      BY <2>1, <3>1, <3>2, ShowIsQuiet
  <2>3. CASE isMyProjectNameUnique(n)
    <3>1. \E closed \in {{NoPopUp}, ListMayStay} : Start(Run("saveNew", screen.feature, n), closed)
      BY <1>5, <2>3 DEF ConfirmNew
    <3>2. PICK closed \in {{NoPopUp}, ListMayStay} : Start(Run("saveNew", screen.feature, n), closed)
      BY <3>1
    <3>3. \A s \in closed : s.page # "replace" /\ (s.feature = "adress" => screen.feature = "adress")
      BY <1>4, <3>2 DEF ListMayStay
    <3>4. /\ Run("saveNew", screen.feature, n).call = "saveNew"
          /\ Run("saveNew", screen.feature, n).feature = screen.feature
      BY DEF Run
    <3>5. QED
      BY <2>1, <3>2, <3>3, <3>4, StartIsQuiet
  <2>4. QED
    BY <2>2, <2>3
<1>6. ASSUME NEW i \in DOMAIN projects, SelectProject(i) PROVE QuietForAdresses
  <2>1. Idle /\ screen.page = "existant" /\ screen.feature \in Savable /\ projects[i] \in Names
    BY <1>0, <1>6, RowName DEF SelectProject, ScreenOK
  <2>2. CASE projects[i] \in Quoted
    BY <1>6, <2>2, StopIsQuiet DEF SelectProject
  <2>3. CASE projects[i] \notin Quoted /\ AlreadyHas(screen.feature, projects[i])
    <3>1. Show(PopUp("replace", screen.feature, projects[i]))
      BY <1>6, <2>3 DEF SelectProject
    <3>2. screen.feature = "adress" => rec["adress"][projects[i]] > 0
      BY <2>3 DEF AlreadyHas, First
    <3>3. /\ PopUp("replace", screen.feature, projects[i]).feature = screen.feature
          /\ PopUp("replace", screen.feature, projects[i]).name = projects[i]
      BY DEF PopUp
    <3>4. QED
      BY <2>1, <3>1, <3>2, <3>3, ShowIsQuiet
  <2>4. CASE projects[i] \notin Quoted /\ ~(AlreadyHas(screen.feature, projects[i]))
    <3>1. Start(Run("saveToExistant", screen.feature, projects[i]), {NoPopUp})
      BY <1>6, <2>4 DEF SelectProject
    <3>2. /\ Run("saveToExistant", screen.feature, projects[i]).call = "saveToExistant"
          /\ Run("saveToExistant", screen.feature, projects[i]).feature = screen.feature
      BY DEF Run
    <3>3. QED
      BY <1>4, <2>1, <3>1, <3>2, StartIsQuiet DEF ListMayStay
  <2>5. QED
    BY <2>2, <2>3, <2>4
<1>7. CASE ConfirmReplace
  <2>1. /\ Idle /\ screen.page = "replace"
        /\ Start(Run("erase", screen.feature, screen.name), ListMayStay)
    BY <1>7 DEF ConfirmReplace
  <2>2. /\ Run("erase", screen.feature, screen.name).feature = screen.feature
        /\ Run("erase", screen.feature, screen.name).name = screen.name
    BY DEF Run
  <2>3. QED
    BY <1>4, <2>1, <2>2, StartIsQuiet
<1>8. CASE Cancel \/ SwipeDown
  <2>1. Idle /\ Show(Under)
    BY <1>8 DEF Cancel, SwipeDown
  <2>2. CASE screen.alert
    <3> DEFINE s == [screen EXCEPT !.alert = FALSE]
    <3>1. s.feature = screen.feature /\ s.page = screen.page /\ s.name = screen.name
      BY <1>0 DEF Screen
    <3>2. Under = s
      BY <2>2 DEF Under
    <3> HIDE DEF s
    <3>3. QED
      BY <2>1, <3>1, <3>2, ShowIsQuiet
  <2>3. CASE ~screen.alert
    <3>1. Under \in {NoPopUp, PopUp("existant", screen.feature, NoProject)}
      BY <2>3 DEF Under
    <3>2. Under.page # "replace" /\ (Under.feature = "adress" => screen.feature = "adress")
      BY <3>1, <1>4 DEF ListMayStay
    <3>3. QED
      BY <2>1, <3>2, ShowIsQuiet
  <2>4. QED
    BY <2>2, <2>3
<1>9. CASE CloseDetails \/ \E i \in DOMAIN projects : OpenDetails(i)
  BY <1>9 DEF OpenDetails, CloseDetails, Idle, QuietForAdresses, AdressInHand, NoPopUp, NoJob
<1>10. CASE PickPhoto
  <2>1. Idle /\ Start(Run("savePhoto", "empty", details), {NoPopUp})
    BY <1>10 DEF PickPhoto
  <2>2. Run("savePhoto", "empty", details).feature = "empty"
    BY DEF Run
  <2>3. QED
    BY <1>4, <2>1, <2>2, StartIsQuiet DEF ListMayStay
<1>11. ASSUME NEW i \in DOMAIN projects, DeleteProject(i) PROVE QuietForAdresses
  <2>1. CASE projects[i] \in Quoted
    BY <1>11, <2>1, StopIsQuiet DEF DeleteProject
  <2>2. CASE projects[i] \notin Quoted
    <3>1. Idle /\ Start(Run("drop", "empty", projects[i]), {NoPopUp})
      BY <1>11, <2>2 DEF DeleteProject
    <3>2. Run("drop", "empty", projects[i]).feature = "empty"
      BY DEF Run
    <3>3. QED
      BY <1>4, <3>1, <3>2, StartIsQuiet DEF ListMayStay
  <2>3. QED
    BY <2>1, <2>2
<1>12. QED
  BY <1>1, <1>2, <1>3, <1>5, <1>6, <1>7, <1>8, <1>9, <1>10, <1>11, TapCases

\* A record of another table, or of an empty project.
LEMMA OtherSaveIsQuiet ==
    ASSUME IInv, SaveNew \/ SaveRecord,
           (SaveNew /\ job.feature # "empty") \/ SaveRecord => Written # "adress"
    PROVE  QuietForAdresses
<1>1. /\ job.call \in SaveCalls \cup {"saveNew"} /\ app' = app /\ screen' = screen
      /\ job' = NextCall /\ app = "running"
  BY DEF SaveNew, SaveRecord
<1>2. rec \in [Kinds -> [Names -> Nat]] /\ screen \in Screen /\ job \in Job
  BY DEF IInv, TypeOK
<1>3. rec' = rec \/ (Written # "adress" /\ Add(Written, job.name))
  BY DEF SaveNew, SaveRecord
<1>4. rec'["adress"] = rec["adress"]
  BY <1>2, <1>3 DEF Add, Kinds
<1>5. NextCall.feature \in {"empty", job.feature} /\ NextCall.call \notin {"erase", "resave"}
  BY <1>1, <1>2 DEF NextCall, NoJob, Job
<1>6. QED
  BY <1>1, <1>4, <1>5 DEF QuietForAdresses, AdressInHand

\* The deletions of a replacement and of a project.
LEMMA EraseIsQuiet ==
    ASSUME IInv, Erase \/ Drop
    PROVE  QuietForAdresses
<1>1. rec \in [Kinds -> [Names -> Nat]] /\ job \in Job
  BY DEF IInv, TypeOK
<1>2. \A K, n : \A m \in Names : Cleared(K, n)["adress"][m] > 0 => rec["adress"][m] > 0
  BY <1>1 DEF Cleared, Kinds
<1>3. CASE Erase
  <2>1. /\ rec' = Cleared(PartsOf(job.feature), job.name)
        /\ job' = [job EXCEPT !.call = "resave"] /\ job.call = "erase"
        /\ screen' = screen /\ app' = app /\ app = "running"
    BY <1>3 DEF Erase
  <2>2. job'.feature = job.feature /\ job'.name = job.name
    BY <1>1, <2>1 DEF Job
  <2>3. QED
    BY <1>2, <2>1, <2>2 DEF QuietForAdresses, AdressInHand
<1>4. CASE Drop
  <2>1. /\ rec' = Cleared(Deleted, job.name) /\ job' = NoJob
        /\ screen' \in {screen, NoPopUp}
        /\ app' = "running" \/ screen' = NoPopUp
    BY <1>4 DEF Drop, memory
  <2>2. QED
    BY <1>2, <2>1 DEF QuietForAdresses, AdressInHand, NoJob, NoPopUp
<1>5. QED
  BY <1>3, <1>4

\* Every step of MapTab that is neither of the map screen nor a save of an
\* address is quiet for addresses.
LEMMA OtherIsQuiet ==
    ASSUME IInv, AnyOtherStep
    PROVE  QuietForAdresses /\ [Next]_vars
<1>1. CASE Tap /\ ~TapOnSaveAdress
  BY <1>1, TapIsQuiet DEF Next
<1>2. CASE Abort \/ Kill
  BY <1>2, StopIsQuiet DEF Abort, Kill, Next
<1>3. CASE Relaunch
  BY <1>3 DEF Relaunch, QuietForAdresses, AdressInHand, memory, Next
<1>4. CASE Call /\ ~SaveCall
  <2>1. CASE Erase \/ Drop
    BY <1>4, <2>1, EraseIsQuiet DEF Next
  <2>2. CASE Raise
    BY <1>4, <2>2, StopIsQuiet DEF Raise, Next
  <2>3. ~SaveNew /\ ~SaveRecord
    <3>1. job \in Job /\ JobOK
      BY DEF IInv, TypeOK
    <3>2. SaveNew => SaveCall
      BY <3>1 DEF SaveNew, Job, Savable, SaveCall, saveEmptyNewProject, saveNewChecklistGeneral,
         saveNewCreditSimulation, saveNewRentabilitySimulation, saveMapAdressWithNewProject
    <3>3. SaveRecord => Written \in Kinds
      BY SaveCallFacts DEF SaveRecord, SaveCalls
    <3>4. SaveRecord => SaveCall
      BY <3>3 DEF Kinds, ChecklistParts, SaveCall, saveChecklistGeneralToExistantProject,
         saveChecklistDistrict, saveChecklistApartmentBlock, saveChecklistApartment,
         addCreditSimulationToExistantProject, addRentabilitySimulationToExistantProject,
         saveMapAdressInExistantProject, didFinishPickingMedia
    <3>5. QED
      BY <1>4, <3>2, <3>4
  <2>4. QED
    BY <1>4, <2>1, <2>2, <2>3, CallCases
<1>5. CASE SaveCall /\ Written # "adress"
  <2>1. Call
    BY <1>5 DEF Call
  <2>2. SaveNew \/ SaveRecord
    BY <1>5 DEF SaveCall, saveEmptyNewProject, saveNewChecklistGeneral, saveNewCreditSimulation,
       saveNewRentabilitySimulation, saveMapAdressWithNewProject,
       saveChecklistGeneralToExistantProject, saveChecklistDistrict, saveChecklistApartmentBlock,
       saveChecklistApartment, addCreditSimulationToExistantProject,
       addRentabilitySimulationToExistantProject, saveMapAdressInExistantProject,
       didFinishPickingMedia
  <2>3. QED
    BY <1>5, <2>1, <2>2, OtherSaveIsQuiet DEF Next
<1>6. QED
  BY <1>1, <1>2, <1>3, <1>4, <1>5 DEF AnyOtherStep

-----------------------------------------------------------------------------
(* The map tab.                                                            *)

\* Every step of the map tab is one of the database, or leaves it alone.
LEMMA MapStepOfStore ==
    ASSUME IInv, [MNext]_everything
    PROVE  [Next]_vars
<1>1. CASE viewDidLoad \/ DismissAlert \/ (\E a \in Adresses : SearchAdress(a))
              \/ (\E a \in Adresses, answer \in Answers : GeocoderAnswers(a, answer))
  BY <1>1 DEF viewDidLoad, SearchAdress, GeocoderAnswers, DismissAlert, vars
<1>2. CASE TapOnAddAdress
  BY <1>2 DEF TapOnAddAdress, TapOnSave, PopUpTap, Tap, Next
<1>3. CASE SaveAdress
  BY <1>3 DEF SaveAdress, SaveCall, Call, Next
<1>4. CASE AnyOtherStep
  BY <1>4, OtherIsQuiet
<1>5. CASE UNCHANGED everything
  BY <1>5 DEF everything
<1>6. QED
  BY <1>1, <1>2, <1>3, <1>4, <1>5 DEF MNext

\* The add button opens a pop-up for an address, and nothing else changes.
LEMMA AddOpensPopUp ==
    ASSUME TapOnSaveAdress
    PROVE  /\ screen'.feature = "adress" /\ screen'.page # "replace"
           /\ UNCHANGED <<projects, rec, managed, details, job, app, torn>>
           /\ job = NoJob /\ app = "running"
BY DEF TapOnSaveAdress, TapSave, Show, PopUp, Idle

\* A save of an address is for the project of the handler, which is over with
\* it, and counts one more record of that project.
LEMMA SaveAdressFacts ==
    ASSUME IInv, SaveAdress
    PROVE  /\ job.feature = "adress" /\ job.call \in {"saveNew", "saveToExistant", "resave"}
           /\ job' = NoJob /\ screen' = screen /\ app' = app /\ app = "running"
           /\ job.name \in Names
           /\ \A n \in Names : rec'["adress"][n] > 0 <=> rec["adress"][n] > 0 \/ n = job.name
           /\ job.call = "resave" => rec["adress"][job.name] = 0
<1>1. job \in Job /\ JobOK /\ rec \in [Kinds -> [Names -> Nat]]
  BY DEF IInv, TypeOK
<1>2. CASE saveMapAdressWithNewProject
  <2>1. job.call = "saveNew" /\ job.feature = "adress" /\ SaveNew
    BY <1>2 DEF saveMapAdressWithNewProject, SaveNew
  <2>2. Add("adress", job.name) /\ job' = NextCall
    BY <2>1 DEF SaveNew, Written, First
  <2>3. QED
    BY <1>1, <2>1, <2>2 DEF SaveNew, NextCall, Add, JobOK, Kinds
<1>3. CASE saveMapAdressInExistantProject
  <2>1. SaveRecord /\ Written = "adress" /\ job.call \in SaveCalls
    BY <1>3 DEF saveMapAdressInExistantProject, SaveRecord
  <2>2. job.call \in {"saveToExistant", "resave"} /\ job.feature = "adress" /\ job.name \in Names
    BY <2>1, SaveCallFacts, AdressTable DEF SaveCalls
  <2>3. Add("adress", job.name) /\ job' = NextCall
    BY <2>1 DEF SaveRecord
  <2>4. job.call = "resave" => rec["adress"][job.name] = 0
    BY <1>1, <2>2, AdressTable DEF JobOK
  <2>5. QED
    BY <1>1, <2>1, <2>2, <2>3, <2>4 DEF SaveRecord, NextCall, Add, Kinds
<1>4. QED
  BY <1>2, <1>3 DEF SaveAdress

\* A step of the map screen that leaves the database alone, and what is on
\* screen: it keeps the places, and the markers can only become more.
LEMMA MapQuietStep ==
    ASSUME MapInv, UNCHANGED <<vars, saved>>,
           searched' \in Places, offered' = offered,
           \/ UNCHANGED <<loaded, markers, unshown>>
           \/ loaded' = TRUE /\ markers' = Annotated(saved)
    PROVE  PlaceOK' /\ MarkersOK'
<1>1. UNCHANGED <<rec, screen, job, saved>>
  BY DEF vars
<1>2. PlaceOK'
  BY <1>1 DEF MapInv, PlaceOK, AdressInHand, SavedPlaceIsRight, Places
<1>3. EverySavedIsMarked'
  BY <1>1 DEF MapInv, MarkersOK, EverySavedIsMarked, Annotated
<1>4. MarkersOK'
  BY <1>1, <1>3 DEF MapInv, MarkersOK, Marked, Annotated
<1>5. QED
  BY <1>2, <1>4

\* Whoever is counted has a marker, although it may be an old one.
LEMMA CountedIsMarked ==
    ASSUME MarkersOK, loaded
    PROVE  \A n \in Names : rec["adress"][n] > 0 => Marked(n)
<1> SUFFICES ASSUME NEW n \in Names, rec["adress"][n] > 0 PROVE Marked(n)
  OBVIOUS
<1>1. PICK r \in saved : r.name = n
  BY DEF MarkersOK
<1>2. r \in markers \/ \E m \in markers : m.name = r.name
  BY DEF MarkersOK, EverySavedIsMarked
<1>3. QED
  BY <1>1, <1>2 DEF Marked

\* A record has the place of its pop-up, which is one that was found, and a
\* marker, or that of the record it replaces.
LEMMA SavePlace ==
    ASSUME MapInv, SaveAdress
    PROVE  PlaceOK' /\ MarkersOK'
<1> USE DEF MapInv
<1>1. /\ job.feature = "adress" /\ job.call \in {"saveNew", "saveToExistant", "resave"}
      /\ job' = NoJob /\ screen' = screen /\ job.name \in Names
      /\ \A n \in Names : rec'["adress"][n] > 0 <=> rec["adress"][n] > 0 \/ n = job.name
      /\ job.call = "resave" => rec["adress"][job.name] = 0
  BY SaveAdressFacts
<1> DEFINE new == [name |-> job.name, place |-> offered]
<1>2. /\ saved' = saved \cup {new} /\ new.name = job.name
      /\ unshown' = IF job.call = "resave" THEN unshown \cup {new} ELSE {}
      /\ markers' = AnnotatedAfterSave(saved')
      /\ UNCHANGED <<loaded, searched, offered>>
  BY DEF SaveAdress
<1>3. loaded /\ offered \in Places \ {Nowhere}
  BY <1>1 DEF PlaceOK, AdressInHand
<1>4. PlaceOK'
  <2>1. /\ offered.adress \in Adresses /\ offered.latitude = offered.adress
        /\ offered.longitude = offered.adress
    BY <1>3 DEF Places
  <2>2. SavedPlaceIsRight'
    BY <1>2, <2>1 DEF PlaceOK, SavedPlaceIsRight
  <2>3. QED
    BY <1>1, <1>2, <1>3, <2>2 DEF PlaceOK, AdressInHand, Places
<1> HIDE DEF new
<1>5. /\ \A n \in Names : rec'["adress"][n] > 0 => \E r \in saved' : r.name = n
      /\ \A r \in saved' : r.name \in Names /\ rec'["adress"][r.name] > 0
  BY <1>1, <1>2 DEF MarkersOK
<1>6. EverySavedIsMarked'
  <2>1. CASE job.call = "resave"
    <3>1. \A r \in saved : r.name # job.name
      BY <1>1, <2>1 DEF MarkersOK
    <3>2. PICK old \in markers : old.name = job.name
      BY <1>1, <2>1 DEF MarkersOK, Marked
    <3>3. markers' = markers /\ unshown' = unshown \cup {new}
      BY <1>2, <2>1 DEF AnnotatedAfterSave
    <3>4. ASSUME NEW r \in saved' \ markers'
          PROVE  r \in unshown' /\ \E m \in markers' \ saved' : m.name = r.name
      <4>1. CASE r = new
        BY <1>2, <3>1, <3>2, <3>3, <3>4, <4>1
      <4>2. CASE r # new
        <5>1. PICK m \in markers \ saved : r \in unshown /\ m.name = r.name
          BY <1>2, <1>3, <3>3, <3>4, <4>2 DEF MarkersOK, EverySavedIsMarked
        <5>2. m # new
          BY <1>2, <3>1, <3>4, <4>2, <5>1
        <5>3. QED
          BY <1>2, <3>3, <5>1, <5>2
      <4>3. QED
        BY <4>1, <4>2
    <3>5. QED
      BY <3>4 DEF EverySavedIsMarked
  <2>2. CASE job.call # "resave"
    BY <1>2, <2>2 DEF AnnotatedAfterSave, Annotated, EverySavedIsMarked
  <2>3. QED
    BY <2>1, <2>2
<1>7. markers \subseteq markers'
  BY <1>2 DEF AnnotatedAfterSave, Annotated
<1>8. MarkersOK'
  <2>1. screen.page = "replace" /\ screen.feature = "adress" => Marked(screen.name)'
    BY <1>1, <1>7 DEF MarkersOK, Marked
  <2>2. QED
    BY <1>1, <1>5, <1>6, <2>1 DEF MarkersOK, NoJob
<1>9. QED
  BY <1>4, <1>8

\* The rest of the app moves no place, takes no marker and forgets the map tab
\* only with everything else.
LEMMA OtherKeepsMap ==
    ASSUME MapInv, AnyOtherStep
    PROVE  PlaceOK' /\ MarkersOK'
<1> USE DEF MapInv
<1>1. QuietForAdresses
  BY OtherIsQuiet
<1>2. /\ saved' = {r \in saved : rec'["adress"][r.name] > 0}
      /\ IF app' # "running" THEN Forget ELSE UNCHANGED mapVars
  BY DEF AnyOtherStep
<1>3. /\ SavedPlaceIsRight'
      /\ \A n \in Names : rec'["adress"][n] > 0 => \E r \in saved' : r.name = n
      /\ \A r \in saved' : r.name \in Names /\ rec'["adress"][r.name] > 0
  BY <1>1, <1>2 DEF PlaceOK, MarkersOK, SavedPlaceIsRight, QuietForAdresses
<1>4. CASE app' = "running"
  <2>1. UNCHANGED <<loaded, searched, offered, markers, unshown>>
    BY <1>2, <1>4 DEF mapVars
  <2>2. PlaceOK'
    BY <1>1, <1>3, <2>1 DEF PlaceOK, QuietForAdresses, AdressInHand, Places
  <2>3. \A n : Marked(n) <=> Marked(n)'
    BY <2>1 DEF Marked
  <2>4. EverySavedIsMarked'
    <3>1. saved' \subseteq saved
      BY <1>2
    <3>2. QED
      BY <2>1, <3>1 DEF MarkersOK, EverySavedIsMarked
  <2>5. screen'.page = "replace" /\ screen'.feature = "adress" => Marked(screen'.name)
    <3> SUFFICES ASSUME screen'.page = "replace", screen'.feature = "adress"
                 PROVE  Marked(screen'.name)
      OBVIOUS
    <3>1. loaded
      BY <1>1 DEF QuietForAdresses, PlaceOK
    <3>2. \A n \in Names : rec["adress"][n] > 0 => Marked(n)
      BY <3>1, CountedIsMarked
    <3>3. QED
      BY <1>1, <3>2 DEF QuietForAdresses, MarkersOK
  <2>6. job'.call \in {"erase", "resave"} /\ job'.feature = "adress" => Marked(job'.name)
    BY <1>1 DEF QuietForAdresses, MarkersOK
  <2>7. QED
    BY <1>3, <2>1, <2>2, <2>3, <2>4, <2>5, <2>6 DEF MarkersOK
<1>5. CASE app' # "running"
  <2>1. /\ ~loaded' /\ searched' = Nowhere /\ offered' = Nowhere
        /\ job' = NoJob /\ screen' = NoPopUp
    BY <1>1, <1>2, <1>5 DEF Forget, QuietForAdresses
  <2>2. QED
    BY <1>3, <2>1 DEF PlaceOK, MarkersOK, EverySavedIsMarked, AdressInHand, NoJob, NoPopUp, Places
<1>6. QED
  BY <1>4, <1>5

\* MapInv holds when the app is installed.
LEMMA MapInitInv == MInit => MapInv
<1> SUFFICES ASSUME MInit PROVE MapInv
  OBVIOUS
<1>1. IInv
  BY InitInv DEF MInit
<1>2. PlaceOK
  BY DEF MInit, Init, PlaceOK, AdressInHand, NoPopUp, NoJob, SavedPlaceIsRight, Places
<1>3. MarkersOK
  <2>1. \A n \in Names : rec["adress"][n] = 0
    BY DEF MInit, Init, Kinds
  <2>2. QED
    BY <2>1 DEF MInit, Init, MarkersOK, EverySavedIsMarked, NoPopUp, NoJob
<1>4. QED
  BY <1>1, <1>2, <1>3 DEF MapInv

\* Every step of the map tab keeps MapInv.
LEMMA MapNextInv == MapInv /\ [MNext]_everything => MapInv'
<1> SUFFICES ASSUME MapInv, [MNext]_everything PROVE MapInv'
  OBVIOUS
<1> SUFFICES PlaceOK' /\ MarkersOK'
  BY MapStepOfStore, NextInv DEF MapInv
<1>1. searched \in Places
  BY DEF MapInv, PlaceOK
<1>2. CASE viewDidLoad
  BY <1>1, <1>2, MapQuietStep DEF viewDidLoad, Annotated
<1>3. CASE DismissAlert \/ \E a \in Adresses : SearchAdress(a)
  BY <1>1, <1>3, MapQuietStep DEF DismissAlert, SearchAdress
<1>4. ASSUME NEW a \in Adresses, NEW answer \in Answers, GeocoderAnswers(a, answer)
      PROVE  PlaceOK' /\ MarkersOK'
  <2>1. searched' \in Places
    BY <1>4 DEF GeocoderAnswers, MapInv, PlaceOK, Places
  <2>2. QED
    BY <1>4, <2>1, MapQuietStep DEF GeocoderAnswers
<1>5. CASE TapOnAddAdress
  <2>1. UNCHANGED <<saved, loaded, searched, markers>> /\ loaded
    BY <1>5 DEF TapOnAddAdress
  <2>2. CASE searched.adress = NoAdress
    BY <1>1, <1>5, <2>1, <2>2, MapQuietStep DEF TapOnAddAdress
  <2>3. CASE searched.adress # NoAdress
    <3>1. TapOnSaveAdress /\ offered' = searched
      BY <1>5, <2>3 DEF TapOnAddAdress
    <3>2. searched # Nowhere
      BY <2>3 DEF Nowhere
    <3>3. PlaceOK'
      BY <2>1, <3>1, <3>2 DEF MapInv, PlaceOK, SavedPlaceIsRight, Places
    <3>4. MarkersOK'
      <4>1. UNCHANGED <<rec, job, unshown>> /\ screen'.page # "replace" /\ job = NoJob
        BY <1>5, <3>1, AddOpensPopUp DEF TapOnAddAdress
      <4>2. EverySavedIsMarked'
        BY <2>1, <4>1 DEF MapInv, MarkersOK, EverySavedIsMarked
      <4>3. QED
        BY <2>1, <4>1, <4>2 DEF MapInv, MarkersOK, Marked, NoJob
    <3>5. QED
      BY <3>3, <3>4
  <2>4. QED
    BY <2>2, <2>3
<1>6. CASE SaveAdress
  BY <1>6, SavePlace
<1>7. CASE AnyOtherStep
  BY <1>7, OtherKeepsMap
<1>8. CASE UNCHANGED everything
  BY <1>1, <1>8, MapQuietStep DEF everything, mapVars
<1>9. QED
  BY <1>2, <1>3, <1>4, <1>5, <1>6, <1>7, <1>8 DEF MNext

\* MapInv holds in every state of the map tab, and with it everything that is
\* proved of the database alone.
THEOREM MapInvariance == MSpec => []MapInv
<1>1. QED
  BY MapInitInv, MapNextInv, PTL DEF MSpec

\* The record of a project has the place of its own address, found by a search,
\* however late and in whatever order the geocoder answers.
THEOREM SavedPlaces == MSpec => []SavedPlaceIsRight
<1>1. MapInv => SavedPlaceIsRight
  BY DEF MapInv, PlaceOK
<1>2. QED
  BY <1>1, MapInvariance, PTL

\* On a map that was shown every saved address has its own marker, but for those
\* a replacement saved since the markers were last set: there the marker of an
\* address that is no longer saved stands for the project.
THEOREM SavedAreMarked == MSpec => []EverySavedIsMarked
<1>1. MapInv => EverySavedIsMarked
  BY DEF MapInv, MarkersOK
<1>2. QED
  BY <1>1, MapInvariance, PTL

-----------------------------------------------------------------------------
(* The details of a project.                                               *)

\* What DetailsInv adds to the invariant of the database.
FoundOK ==
    /\ found \subseteq Kinds
    /\ details = NoProject => found = {}
    /\ \A k \in found : rec[k][details] > 0 \/ k \in ToBeWritten

\* A tap on a pop-up or on the list does not write, starts between handlers
\* and closes the details at most.
LEMMA PopUpTapWritesNothing ==
    ASSUME PopUpTap
    PROVE  rec' = rec /\ job = NoJob /\ details' \in {details, NoProject}
<1>1. CASE \E i \in DOMAIN projects : SelectProject(i) \/ DeleteProject(i)
  BY <1>1 DEF SelectProject, DeleteProject, Idle, Stop, Show, Start
<1>2. CASE (\E f \in Savable : TapSave(f)) \/ \E n \in Names : ConfirmNew(n)
  BY <1>2 DEF TapSave, ConfirmNew, Show, Start, Idle
<1>3. CASE TapNewProject \/ TapNewOnExistant \/ ConfirmReplace \/ Cancel \/ SwipeDown
  BY <1>3 DEF TapNewProject, TapNewOnExistant, ConfirmReplace, Cancel, SwipeDown, Show, Start, Idle
<1>4. QED
  BY <1>1, <1>2, <1>3, PopUpCases

\* Between handlers nothing is left to be written.
LEMMA NothingToWrite ==
    ASSUME job.call \notin {"resave", "saveDistrict", "saveBlock", "saveApartment"}
    PROVE  ToBeWritten = {}
BY DEF ToBeWritten

\* A step that does not write, before which no handler ran, on the same details.
LEMMA ReadersKeepFound ==
    ASSUME FoundOK, job = NoJob, rec' = rec, details' = details, found' = found
    PROVE  FoundOK'
<1>1. ToBeWritten = {}
  BY NothingToWrite DEF NoJob
<1>2. QED
  BY <1>1 DEF FoundOK

\* A call that saves writes one of the parts that were to be written, and the
\* others are those the next call has to write.
LEMMA SavesKeepFound ==
    ASSUME IInv, FoundOK, SaveNew \/ SaveRecord, found' = found
    PROVE  FoundOK'
<1>1. /\ details' = details /\ job' = NextCall /\ job.call \in SaveCalls \cup {"saveNew"}
      /\ rec \in [Kinds -> [Names -> Nat]] /\ job \in Job /\ details \in Names \cup {NoProject}
      /\ job.name \in Names
  BY DEF SaveNew, SaveRecord, IInv, TypeOK, JobOK, SaveCalls
<1>2. \A k \in found : details \in Names
  BY <1>1 DEF FoundOK
<1>3. CASE job.call = "saveNew" /\ job.feature = "empty"
  <2>1. rec' = rec
    BY <1>3 DEF SaveNew, SaveRecord, SaveCalls
  <2>2. ToBeWritten = {}
    BY <1>3, NothingToWrite
  <2>3. QED
    BY <1>1, <2>1, <2>2 DEF FoundOK
<1>4. CASE job.call = "saveNew" => job.feature # "empty"
  <2>1. Add(Written, job.name)
    BY <1>4 DEF SaveNew, SaveRecord, SaveCalls
  <2>2. \A k \in Kinds, n \in Names :
           rec'[k][n] = IF k = Written /\ n = job.name THEN rec[k][n] + 1 ELSE rec[k][n]
    BY <1>1, <2>1 DEF Add
  <2>3. \A k \in found : rec[k][details] > 0 => rec'[k][details] > 0
    BY <1>1, <1>2, <2>2 DEF FoundOK
  <2>4. \A k \in found \cap ToBeWritten : k = Written \/ k \in ToBeWritten'
    <3> SUFFICES ASSUME NEW k \in ToBeWritten, k # Written PROVE k \in ToBeWritten'
      OBVIOUS
    <3>1. job.name = details
      BY DEF ToBeWritten
    <3>2. CASE job.call = "resave"
      <4>1. k \in PartsOf(job.feature) /\ Written = First(job.feature)
        BY <1>4, <3>1, <3>2, SaveCallFacts, <1>1 DEF ToBeWritten
      <4>2. job.feature = "checklist" /\ k \in {"district", "block", "apartment"}
        BY <4>1 DEF PartsOf, First, ChecklistParts
      <4>3. job'.call = "saveDistrict" /\ job'.name = details
        BY <1>1, <3>1, <3>2, <4>2 DEF NextCall, Job
      <4>4. QED
        BY <1>1, <4>2, <4>3 DEF ToBeWritten
    <3>3. CASE job.call = "saveDistrict"
      <4>1. k \in {"block", "apartment"}
        BY <1>4, <3>1, <3>3, SaveCallFacts, <1>1 DEF ToBeWritten
      <4>2. job'.call = "saveBlock" /\ job'.name = details
        BY <1>1, <3>1, <3>3 DEF NextCall, Job
      <4>3. QED
        BY <1>1, <4>1, <4>2 DEF ToBeWritten
    <3>4. CASE job.call = "saveBlock"
      <4>1. k = "apartment"
        BY <1>4, <3>1, <3>4, SaveCallFacts, <1>1 DEF ToBeWritten
      <4>2. job'.call = "saveApartment" /\ job'.name = details
        BY <1>1, <3>1, <3>4 DEF NextCall, Job
      <4>3. QED
        BY <1>1, <4>1, <4>2 DEF ToBeWritten
    <3>5. CASE job.call = "saveApartment"
      BY <1>4, <3>1, <3>5, SaveCallFacts, <1>1 DEF ToBeWritten
    <3>6. QED
      BY <3>1, <3>2, <3>3, <3>4, <3>5 DEF ToBeWritten
  <2>5. \A k \in found \cap ToBeWritten : k = Written => rec'[k][details] > 0
    <3>1. \A k \in ToBeWritten : job.name = details
      BY DEF ToBeWritten
    <3>2. QED
      BY <1>1, <1>2, <2>2, <3>1 DEF FoundOK
  <2>6. QED
    BY <1>1, <2>3, <2>4, <2>5 DEF FoundOK
<1>5. QED
  BY <1>3, <1>4

\* A replacement deletes what it will save again.
LEMMA EraseKeepsFound ==
    ASSUME IInv, FoundOK, Erase, found' = found
    PROVE  FoundOK'
<1>1. /\ rec' = Cleared(PartsOf(job.feature), job.name) /\ job.call = "erase"
      /\ job' = [job EXCEPT !.call = "resave"] /\ details' = details
      /\ rec \in [Kinds -> [Names -> Nat]] /\ job \in Job /\ details \in Names \cup {NoProject}
  BY DEF Erase, IInv, TypeOK
<1>2. ToBeWritten = {}
  BY <1>1, NothingToWrite
<1>3. job'.call = "resave" /\ job'.name = job.name /\ job'.feature = job.feature
  BY <1>1 DEF Job
<1>4. \A k \in found : rec'[k][details] = rec[k][details] \/ k \in ToBeWritten'
  <2> SUFFICES ASSUME NEW k \in found PROVE rec'[k][details] = rec[k][details] \/ k \in ToBeWritten'
    OBVIOUS
  <2>1. k \in Kinds /\ details \in Names
    BY <1>1 DEF FoundOK
  <2>2. CASE k \in PartsOf(job.feature) /\ job.name = details
    BY <1>1, <1>3, <2>2 DEF ToBeWritten
  <2>3. CASE k \notin PartsOf(job.feature) \/ job.name # details
    BY <1>1, <2>1, <2>3 DEF Cleared
  <2>4. QED
    BY <2>2, <2>3
<1>5. QED
  BY <1>1, <1>2, <1>4 DEF FoundOK

\* Whatever runs behind the open screen keeps what the pages found.
LEMMA ElsewhereKeepsFound ==
    ASSUME IInv, FoundOK, Elsewhere
    PROVE  FoundOK'
<1>1. CASE details' = NoProject
  BY <1>1 DEF Elsewhere, Close, FoundOK
<1>2. CASE details' # NoProject
  <2>1. found' = found
    BY <1>2 DEF Elsewhere
  <2>2. CASE PopUpTap
    BY <1>2, <2>1, <2>2, PopUpTapWritesNothing, ReadersKeepFound
  <2>3. CASE SaveNew \/ SaveRecord
    BY <2>1, <2>3, SavesKeepFound
  <2>4. CASE Erase
    BY <2>1, <2>4, EraseKeepsFound
  <2>5. ~Drop /\ ~Raise /\ ~Kill
    BY <1>2 DEF Drop, Raise, Kill, Stop, IInv, JobOK, memory
  <2>6. CASE Relaunch
    BY <2>1, <2>6 DEF Relaunch, memory, FoundOK, ToBeWritten
  <2>7. QED
    BY <2>2, <2>3, <2>4, <2>5, <2>6, CallCases DEF Elsewhere
<1>3. QED
  BY <1>1, <1>2

\* Every step of the details screen is one of the database, or leaves it alone.
LEMMA DetailsStepOfStore ==
    ASSUME [DNext]_allVars
    PROVE  [Next]_vars
<1>1. CASE \E p \in DetailPages : scrollToMenuIndex(p) \/ Swipe(p)
  BY <1>1 DEF scrollToMenuIndex, Swipe
<1>2. CASE TapAddPhoto \/ DismissPicker \/ ImageArrives \/ LayOut
  BY <1>2 DEF TapAddPhoto, DismissPicker, ImageArrives, LayOut
<1>3. CASE (\E i \in DOMAIN projects : OpenPages(i)) \/ ClosePages \/ TakePhoto
  BY <1>3 DEF OpenPages, ClosePages, TakePhoto, DetailsTap, Tap, Next
<1>4. CASE TapGpsOnGone \/ \E k \in ChecklistParts : ShowMissingRow(k)
  BY <1>4 DEF TapGpsOnGone, ShowMissingRow, Next
<1>5. CASE Elsewhere
  BY <1>5 DEF Elsewhere, Tap, Next
<1>6. CASE UNCHANGED allVars
  BY <1>6 DEF allVars
<1>7. QED
  BY <1>1, <1>2, <1>3, <1>4, <1>5, <1>6 DEF DNext

\* A page reads only what the database has of the open project.
LEMMA LoadKeepsFound ==
    ASSUME FoundOK, Free, NEW p \in DetailPages, Load(p), UNCHANGED vars
    PROVE  FoundOK'
<1>1. ToBeWritten = {} /\ details # NoProject
  BY NothingToWrite DEF Free, Idle, NoJob
<1>2. found' = found \/ found' = found \cup Read(p, details)
  BY DEF Load
<1>3. Read(p, details) \subseteq Kinds /\ \A k \in Read(p, details) : rec[k][details] > 0
  <2>1. TablesOf(p) \subseteq Kinds
    BY DEF DetailPages, viewControllers, TablesOf, MainKind, PartsOf, Kinds
  <2>2. QED
    BY <2>1 DEF Read
<1>4. rec' = rec /\ details' = details
  BY DEF vars
<1>5. QED
  BY <1>1, <1>2, <1>3, <1>4 DEF FoundOK

\* Every step of the details screen keeps DetailsInv.
LEMMA DetailsNextInv == DetailsInv /\ [DNext]_allVars => DetailsInv'
<1> SUFFICES ASSUME IInv, FoundOK, [DNext]_allVars PROVE FoundOK'
  <2>1. (DetailsInv <=> IInv /\ FoundOK) /\ (DetailsInv' <=> IInv' /\ FoundOK')
    BY DEF DetailsInv, FoundOK
  <2>2. QED
    BY <2>1, DetailsStepOfStore, NextInv
<1>1. ASSUME NEW i \in DOMAIN projects, OpenPages(i) PROVE FoundOK'
  <2> DEFINE p == viewControllers[1]
  <2>1. rec' = rec /\ details' = projects[i] /\ found' = Read(p, projects[i]) /\ projects[i] \in Names
    BY <1>1, RowName DEF OpenPages, OpenDetails
  <2>2. TablesOf(p) \subseteq Kinds
    BY DEF viewControllers, TablesOf, MainKind, PartsOf, Kinds
  <2> HIDE DEF p
  <2>3. QED
    BY <2>1, <2>2, StoreAssumption DEF StoreAssumption, FoundOK, Read
<1>2. CASE ClosePages
  BY <1>2 DEF ClosePages, Close, FoundOK
<1>3. ASSUME NEW p \in DetailPages, scrollToMenuIndex(p) \/ Swipe(p) PROVE FoundOK'
  BY <1>3, LoadKeepsFound DEF scrollToMenuIndex, Swipe
<1>4. CASE TapGpsOnGone \/ \E k \in ChecklistParts : ShowMissingRow(k)
  BY <1>4 DEF TapGpsOnGone, ShowMissingRow, Close, FoundOK
<1>5. CASE TapAddPhoto \/ DismissPicker \/ ImageArrives \/ LayOut \/ UNCHANGED allVars
  <2>1. UNCHANGED <<rec, details, job, found>>
    BY <1>5 DEF TapAddPhoto, DismissPicker, ImageArrives, LayOut, allVars, pageVars, vars
  <2>2. QED
    BY <2>1 DEF FoundOK, ToBeWritten
<1>6. CASE TakePhoto
  <2>1. job = NoJob /\ rec' = rec /\ details' = details /\ found' = found
    BY <1>6 DEF TakePhoto, PickPhoto, Start, Idle
  <2>2. QED
    BY <2>1, ReadersKeepFound
<1>7. CASE Elsewhere
  BY <1>7, ElsewhereKeepsFound
<1>8. QED
  BY <1>1, <1>2, <1>3, <1>4, <1>5, <1>6, <1>7 DEF DNext

\* DetailsInv holds in every state, and with it everything that is proved of the
\* database alone.
THEOREM DetailsInvariance == DSpec => []DetailsInv
<1>1. DInit => DetailsInv
  BY InitInv DEF DInit, DetailsInv
<1>2. QED
  BY <1>1, DetailsNextInv, PTL DEF DSpec

\* Between handlers, the project whose details are open has a record of every
\* table in which one of its pages found one, whatever the other tabs deleted,
\* replaced or saved meanwhile.
THEOREM FoundIsSaved == DSpec => []FoundStaysSaved
<1>1. DetailsInv => FoundStaysSaved
  BY NothingToWrite DEF DetailsInv, FoundStaysSaved, NoJob
<1>2. QED
  BY <1>1, DetailsInvariance, PTL
=============================================================================
