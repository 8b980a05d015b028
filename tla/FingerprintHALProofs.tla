------------------------ MODULE FingerprintHALProofs ------------------------
(* Type correctness and thread safety of FingerprintHAL, for every number of *)
(* clients, threads, groups and templates and for every set of faults.       *)
EXTENDS FingerprintHAL, FiniteSetTheorems, NaturalsInduction, WellFoundedInduction, TLAPS

-----------------------------------------------------------------------------
(* What the helpers return. *)

\* Every nonempty set of naturals has a least element.
LEMMA LeastNatural ==
    ASSUME NEW S \in SUBSET Nat, S # {}
    PROVE  \E f \in S : \A g \in S : f <= g
<1> DEFINE Less == {p \in Nat \X Nat : p[1] < p[2]}
<1>1. IsWellFoundedOn(Less, Nat)
  BY NatLessThanWellFounded, Zenon DEF OpToRel
<1>2. \E x \in S : \A y \in S : <<y, x>> \notin Less
  BY <1>1, WFMin, Zenon
<1>3. \A x, y \in Nat : <<y, x>> \notin Less => x <= y
  OBVIOUS
<1> HIDE DEF Less
<1> QED
  BY <1>2, <1>3

\* load_templates_locked leaves at most MAX_TEMPLATES finger ids.
LEMMA LoadTyped ==
    ASSUME NEW present \in SUBSET Fid, NEW t \in load_templates(present)
    PROVE  t \in Seq(Fid) /\ Len(t) <= MaxTemplates
<1>1. Cardinality(present) \in Nat
  <2>1. IsFiniteSet(Fid)
    BY FS_Interval, ConstantsAssumption DEF Fid
  <2>2. IsFiniteSet(present)
    BY <2>1, FS_Subset
  <2> QED
    BY <2>2, FS_CardinalityType
<1>2. PICK n \in 0..MaxTemplates : t \in [1..n -> present]
  BY <1>1, ConstantsAssumption DEF load_templates
<1>3. QED
  BY <1>2

\* random_u64 always has an authenticator id that nothing in memory or on
\* disk uses.
LEMMA FreshId ==
    ASSUME TypeOK
    PROVE  (CHOOSE i \in AuthIds : i \notin LiveIds) \in AuthIds \ LiveIds
<1> DEFINE Holders == {h \in Gids : meta[h] # NoMeta}
           Stores == {meta[g].authenticator : g \in Holders}
<1>1. IsFiniteSet(Holders) /\ Cardinality(Holders) <= Cardinality(Gids)
  BY FS_Subset, EnoughAuthIds
<1>2. IsFiniteSet(Stores) /\ Cardinality(Stores) <= Cardinality(Holders)
  <2>1. [g \in Holders |-> meta[g].authenticator] \in Surjection(Holders, Stores)
    BY DEF Surjection
  <2> QED
    BY <2>1, <1>1, FS_Surjection DEF ExistsSurjection
<1> HIDE DEF Holders, Stores
<1>3. IsFiniteSet(LiveIds) /\ Cardinality(LiveIds) <= Cardinality(Gids) + 1
  <2>1. LiveIds = Stores \cup {authenticator_id}
    BY DEF LiveIds, Stores, Holders
  <2>2. Cardinality(Stores) \in Nat /\ Cardinality(Holders) \in Nat /\ Cardinality(Gids) \in Nat
    BY <1>1, <1>2, FS_CardinalityType, EnoughAuthIds
  <2>3. /\ IsFiniteSet(Stores \cup {authenticator_id})
        /\ Cardinality(Stores \cup {authenticator_id}) <= Cardinality(Stores) + 1
    <3>1. /\ IsFiniteSet(Stores \cup {authenticator_id})
          /\ Cardinality(Stores \cup {authenticator_id}) =
               IF authenticator_id \in Stores THEN Cardinality(Stores) ELSE Cardinality(Stores) + 1
      BY <1>2, FS_AddElement, Zenon
    <3> QED
      BY <3>1, <2>2
  <2> QED
    <3>1. IsFiniteSet(LiveIds) /\ Cardinality(LiveIds) <= Cardinality(Stores) + 1
      BY <2>1, <2>3, Zenon
    <3>2. Cardinality(LiveIds) \in Nat
      BY <3>1, FS_CardinalityType
    <3> QED
      BY <3>1, <3>2, <2>2, <1>1, <1>2
<1>4. ~(AuthIds \subseteq LiveIds)
  <2>1. AuthIds \subseteq LiveIds => Cardinality(AuthIds) <= Cardinality(LiveIds)
    BY <1>3, FS_Subset
  <2>2. Cardinality(AuthIds) \in Nat /\ Cardinality(LiveIds) \in Nat /\ Cardinality(Gids) \in Nat
    BY <1>3, FS_CardinalityType, EnoughAuthIds
  <2> QED
    BY <2>1, <2>2, <1>3, EnoughAuthIds
<1> QED
  BY <1>4

\* Rotation keeps the ids and the metadata in their types.
LEMMA RotateTyped ==
    ASSUME TypeOK, NEW t \in Seq(Fid), NEW dir \in Gids \cup {NoPath},
           NEW user \in Users \cup {0}, rotate_authenticator(t, dir, user)
    PROVE  /\ authenticator_id' \in AuthIds \cup {0}
           /\ meta' \in [Gids -> Metadata \cup {NoMeta}]
           /\ drawn_for' \in [AuthIds -> SUBSET Fid]
<1>1. Range(t) \subseteq Fid
  BY DEF Range
<1>2. random_u64 \subseteq AuthIds \cup {0}
  BY FreshId DEF random_u64
<1>3. ASSUME NEW auth \in AuthIds \cup {0}, save_metadata(dir, user, auth)
      PROVE  meta' \in [Gids -> Metadata \cup {NoMeta}]
  BY <1>3 DEF save_metadata, Metadata, TypeOK, IdTypeOK
<1>4. CASE t = <<>>
  BY <1>3, <1>4 DEF rotate_authenticator, TypeOK, IdTypeOK
<1>5. CASE t # <<>>
  <2>1. PICK id \in random_u64 :
          /\ authenticator_id' = id
          /\ IF id = 0
             THEN UNCHANGED <<meta, drawn_for>>
             ELSE /\ drawn_for' = [i \in AuthIds |-> IF i = id THEN Range(t)
                                      ELSE IF i \in LiveIds THEN drawn_for[i] ELSE {}]
                  /\ save_metadata(dir, user, id)
    BY <1>5 DEF rotate_authenticator
  <2>2. CASE id = 0
    BY <2>1, <2>2, <1>2 DEF TypeOK, IdTypeOK
  <2>3. CASE id # 0
    BY <2>1, <2>3, <1>1, <1>2, <1>3 DEF TypeOK, IdTypeOK
  <2> QED BY <2>2, <2>3
<1> QED BY <1>4, <1>5

\* find_free_fid_locked returns 0 or a slot that no loaded template uses.
LEMMA FreeFidTyped ==
    find_free_fid \in Fid \cup {0} /\ (find_free_fid # 0 => find_free_fid \notin Range(templates))
<1> DEFINE free == Fid \ Range(templates)
<1>1. CASE free = {}
  BY <1>1 DEF find_free_fid
<1>2. CASE free # {}
  <2>1. free \in SUBSET Nat
    BY DEF Fid
  <2>2. \E f \in free : \A g \in free : f <= g
    BY <2>1, <1>2, LeastNatural
  <2>3. find_free_fid \in free
    BY <2>2, <1>2 DEF find_free_fid
  <2> QED BY <2>3
<1> QED BY <1>1, <1>2

\* The calls and the messages have the types the clients and workers keep.
LEMMA RequestTyped == NoRequest \in Args /\ Request \subseteq Args
<1>1. 0 \in Gids /\ 0 \in 0..MaxChallenge
  BY ConstantsAssumption
<1> QED BY <1>1 DEF NoRequest, Args, Request

LEMMA MessagesTyped ==
    /\ \A code \in ErrorCode : Error(code) \in Message
    /\ Acquired \in Message
    /\ \A g \in Gids, f \in Fid \cup {0}, n \in 0..Stages : Enrolling(g, f, n) \in Message
    /\ \A g \in Gids, f \in Fid \cup {0}, id \in OperationIds \cup {0},
          u \in Users \cup {0}, a \in AuthIds \cup {0} : Authenticated(g, f, id, u, a) \in Message
BY DEF Message, Error, Acquired, Enrolling, Authenticated

LEMMA NoJobTyped == NoJob \in Job
<1>1. 0 \in Gids /\ 0 \in 0..Stages /\ 0 \in 0..MaxTemplates
  BY ConstantsAssumption
<1> QED BY <1>1, MessagesTyped DEF NoJob, Job

\* A worker that moves to a label, or queues a message, keeps the types.
LEMMA GotoTyped ==
    ASSUME WorkerTypeOK, NEW w \in Workers, NEW l \in ({"exited"} \cup RunningLabels) \ {"save"},
           Goto(w, l)
    PROVE  WorkerTypeOK'
BY DEF Goto, WorkerTypeOK

LEMMA SendTyped ==
    ASSUME WorkerTypeOK, NEW w \in Workers, NEW m \in Message,
           NEW l \in {"loop", "post", "done"}, Send(w, m, l)
    PROVE  WorkerTypeOK'
<1>1. [job[w] EXCEPT !.msg = m, !.next = l] \in Job
  BY DEF WorkerTypeOK, Job
<1> QED
  BY <1>1 DEF Send, WorkerTypeOK, RunningLabels

\* What is not touched keeps its type.
LEMMA TypeFrame ==
    /\ ThreadTypeOK /\ UNCHANGED <<deviceVars, threadVars>> => ThreadTypeOK'
    /\ GroupTypeOK /\ UNCHANGED <<groupVars, files>> => GroupTypeOK'
    /\ IdTypeOK /\ UNCHANGED <<idVars, callVars, meta>> => IdTypeOK'
    /\ ClientTypeOK /\ UNCHANGED clientVars => ClientTypeOK'
    /\ WorkerTypeOK /\ UNCHANGED workerVars => WorkerTypeOK'
<1>1. ThreadTypeOK /\ UNCHANGED <<deviceVars, threadVars>> => ThreadTypeOK'
  BY DEF ThreadTypeOK, deviceVars, threadVars
<1>2. GroupTypeOK /\ UNCHANGED <<groupVars, files>> => GroupTypeOK'
  BY DEF GroupTypeOK, groupVars
<1>3. IdTypeOK /\ UNCHANGED <<idVars, callVars, meta>> => IdTypeOK'
  BY DEF IdTypeOK, idVars, callVars
<1>4. ClientTypeOK /\ UNCHANGED clientVars => ClientTypeOK'
  BY DEF ClientTypeOK, clientVars
<1>5. WorkerTypeOK /\ UNCHANGED workerVars => WorkerTypeOK'
  BY DEF WorkerTypeOK, workerVars
<1> QED BY <1>1, <1>2, <1>3, <1>4, <1>5

LEMMA ReturnTyped ==
    ASSUME ClientTypeOK, NEW c \in Clients, Return(c)
    PROVE  ClientTypeOK'
BY RequestTyped DEF Return, ClientTypeOK

LEMMA RefuseTyped ==
    ASSUME TypeOK, NEW c \in Clients, Refuse(c)
    PROVE  TypeOK'
BY ReturnTyped, TypeFrame DEF Refuse, TypeOK, diskVars

-----------------------------------------------------------------------------
(* Type correctness. *)

LEMMA TypeInit == Init => TypeOK
<1>1. 0 \in Gids /\ 0 \in 0..MaxChallenge /\ Len(<<>>) <= MaxTemplates
  BY ConstantsAssumption
<1> SUFFICES ASSUME Init PROVE TypeOK
  OBVIOUS
<1>2. ThreadTypeOK
  BY DEF Init, ThreadTypeOK
<1>3. GroupTypeOK
  BY <1>1 DEF Init, GroupTypeOK
<1>4. IdTypeOK
  BY <1>1 DEF Init, IdTypeOK
<1>5. ClientTypeOK
  BY RequestTyped DEF Init, ClientTypeOK
<1>6. WorkerTypeOK
  BY NoJobTyped DEF Init, WorkerTypeOK
<1> QED BY <1>2, <1>3, <1>4, <1>5, <1>6 DEF TypeOK

\* start_worker_locked hands a typed job to a thread that was free, or fails.
LEMMA StartTyped ==
    ASSUME TypeOK, UNCHANGED deviceVars, NEW j \in Job, j.op \in {"enroll", "authenticate"},
           start_worker(j)
    PROVE  ThreadTypeOK' /\ WorkerTypeOK'
<1>1. CASE \E w \in Workers :
            /\ wpc[w] = "free"
            /\ wpc' = [wpc EXCEPT ![w] = "loop"]
            /\ job' = [job EXCEPT ![w] = j]
            /\ handle' = w
            /\ worker_active' = TRUE /\ worker_joinable' = TRUE
            /\ operation' = j.op
  <2>1. ThreadTypeOK'
    BY <1>1 DEF start_worker, TypeOK, ThreadTypeOK, deviceVars
  <2>2. WorkerTypeOK'
    BY <1>1 DEF TypeOK, WorkerTypeOK, RunningLabels
  <2> QED BY <2>1, <2>2
<1>2. CASE /\ worker_active' = FALSE /\ operation' = "idle"
           /\ UNCHANGED <<worker_joinable, handle, workerVars>>
  <2>1. ThreadTypeOK'
    BY <1>2 DEF start_worker, TypeOK, ThreadTypeOK, deviceVars
  <2>2. WorkerTypeOK'
    BY <1>2, TypeFrame DEF TypeOK
  <2> QED BY <2>1, <2>2
<1> QED BY <1>1, <1>2 DEF start_worker

\* Joining a thread returns its id and its handle.
LEMMA JoinTyped ==
    ASSUME TypeOK, NEW c \in Clients, Join(c)
    PROVE  WorkerTypeOK' /\ joins' \in [Clients -> Workers \cup {NoWorker}]
BY NoJobTyped DEF Join, TypeOK, WorkerTypeOK, ClientTypeOK

\* The memory of a fresh device is typed.
LEMMA FreshTyped ==
    ASSUME TypeOK, FreshMemory, opened' \in BOOLEAN, UNCHANGED <<meta, drawn_for>>,
           files' \in [Gids -> SUBSET Fid]
    PROVE  ThreadTypeOK' /\ GroupTypeOK' /\ IdTypeOK'
<1>1. 0 \in Gids /\ 0 \in 0..MaxChallenge /\ Len(<<>>) <= MaxTemplates
  BY ConstantsAssumption
<1>2. ThreadTypeOK'
  BY DEF FreshMemory, ThreadTypeOK
<1>3. GroupTypeOK'
  BY <1>1 DEF FreshMemory, GroupTypeOK
<1>4. IdTypeOK'
  BY <1>1 DEF FreshMemory, IdTypeOK, TypeOK
<1> QED BY <1>2, <1>3, <1>4

\* Deleting and loading templates keeps the group's state typed.
LEMMA FilesTyped ==
    ASSUME GroupTypeOK, NEW gone \in SUBSET Fid
    PROVE  WithoutFiles(gone) \in [Gids -> SUBSET Fid]
BY DEF WithoutFiles, GroupTypeOK

LEMMA ReportTyped ==
    ASSUME ClientTypeOK, NEW c \in Clients, NEW fids \in SUBSET Fid, ToReport(c, fids)
    PROVE  ClientTypeOK'
BY DEF ToReport, ClientTypeOK

\* The calls that only move a client or hand over a thread.
LEMMA MoveTyped ==
    ASSUME TypeOK, NEW c \in Clients,
           Call(c) \/ ReapJoined(c) \/ StopJoined(c) \/ NotifyCanceled(c) \/ Report(c)
           \/ stop_worker(c) \/ fingerprint_enumerate(c)
    PROVE  TypeOK'
<1>1. CASE Call(c)
  <2>1. PICK r \in Request : reap_finished_worker(c) /\ req' = [req EXCEPT ![c] = r]
    BY <1>1 DEF Call
  <2>2. r \in Args
    BY RequestTyped
  <2>3. ThreadTypeOK'
    BY <1>1, <2>1 DEF Call, reap_finished_worker, TypeOK, ThreadTypeOK, deviceVars
  <2>4. ClientTypeOK'
    <3>1. UNCHANGED left
      BY <1>1 DEF Call
    <3> QED BY <2>1, <2>2, <3>1 DEF reap_finished_worker, TypeOK, ThreadTypeOK, ClientTypeOK,
                                    JoinLabels
  <2>5. UNCHANGED <<groupVars, idVars, callVars, diskVars, workerVars>>
    BY <1>1 DEF Call
  <2> QED BY <2>3, <2>4, <2>5, TypeFrame DEF TypeOK, diskVars
<1>2. CASE ReapJoined(c)
  <2>1. ClientTypeOK'
    BY <1>2, JoinTyped DEF ReapJoined, TypeOK, ClientTypeOK
  <2>2. WorkerTypeOK'
    BY <1>2, JoinTyped DEF ReapJoined
  <2>3. UNCHANGED <<deviceVars, threadVars, groupVars, idVars, callVars, diskVars>>
    BY <1>2 DEF ReapJoined
  <2> QED BY <2>1, <2>2, <2>3, TypeFrame DEF TypeOK, diskVars
<1>3. CASE StopJoined(c)
  <2>1. ClientTypeOK'
    BY <1>3, JoinTyped, RequestTyped DEF StopJoined, TypeOK, ClientTypeOK
  <2>2. WorkerTypeOK'
    BY <1>3, JoinTyped DEF StopJoined
  <2>3. UNCHANGED <<deviceVars, threadVars, groupVars, idVars, callVars, diskVars>>
    BY <1>3 DEF StopJoined
  <2> QED BY <2>1, <2>2, <2>3, TypeFrame DEF TypeOK, diskVars
<1>4. CASE NotifyCanceled(c)
  BY <1>4, RefuseTyped DEF NotifyCanceled
<1>5. CASE Report(c)
  <2>1. UNCHANGED <<deviceVars, threadVars, groupVars, idVars, callVars, diskVars, workerVars>>
    BY <1>5 DEF Report
  <2>2. CASE Return(c)
    BY <2>1, <2>2, ReturnTyped, TypeFrame DEF TypeOK, diskVars
  <2>3. CASE ~Return(c)
    <3>1. ClientTypeOK'
      BY <1>5, <2>3 DEF Report, TypeOK, ClientTypeOK
    <3> QED BY <3>1, <2>1, TypeFrame DEF TypeOK, diskVars
  <2> QED BY <2>2, <2>3
<1>6. CASE stop_worker(c)
  <2>1. UNCHANGED <<deviceVars, groupVars, idVars, callVars, diskVars, workerVars>>
    BY <1>6 DEF stop_worker
  <2>2. ThreadTypeOK'
    BY <1>6 DEF stop_worker, RequestCancel, TypeOK, ThreadTypeOK, deviceVars, threadVars
  <2>3. ClientTypeOK'
    <3>1. CASE Return(c)
      BY <3>1, ReturnTyped DEF TypeOK
    <3>2. CASE ~Return(c)
      BY <1>6, <3>2 DEF stop_worker, TypeOK, ThreadTypeOK, ClientTypeOK, JoinLabels
    <3> QED BY <3>1, <3>2
  <2> QED BY <2>1, <2>2, <2>3, TypeFrame DEF TypeOK, diskVars
<1>7. CASE fingerprint_enumerate(c)
  <2>1. UNCHANGED <<deviceVars, threadVars, groupVars, idVars, callVars, diskVars, workerVars>>
    BY <1>7 DEF fingerprint_enumerate
  <2>2. Range(templates) \in SUBSET Fid
    BY DEF Range, TypeOK, GroupTypeOK
  <2>3. ClientTypeOK'
    BY <1>7, <2>2, ReturnTyped, ReportTyped DEF fingerprint_enumerate, TypeOK
  <2> QED BY <2>1, <2>3, TypeFrame DEF TypeOK, diskVars
<1> QED BY <1>1, <1>2, <1>3, <1>4, <1>5, <1>6, <1>7

\* The calls that start a worker.
LEMMA StartCallTyped ==
    ASSUME TypeOK, NEW c \in Clients, fingerprint_enroll(c) \/ fingerprint_authenticate(c)
    PROVE  TypeOK'
<1>0. req[c] \in Args
  BY DEF TypeOK, ClientTypeOK
<1>1. CASE Refuse(c)
  BY <1>1, RefuseTyped
<1>2. CASE fingerprint_enroll(c) /\ ~Refuse(c)
  <2> DEFINE j == [NoJob EXCEPT !.op = "enroll", !.gid = req[c].gid, !.remaining = Stages]
  <2>1. /\ secure_user_id' = req[c].user /\ start_worker(j) /\ Return(c)
        /\ UNCHANGED <<deviceVars, groupVars, authenticator_id, drawn_for, callVars, diskVars>>
    BY <1>2 DEF fingerprint_enroll
  <2>2. j \in Job /\ j.op = "enroll"
    <3>1. Stages \in 0..Stages
      BY ConstantsAssumption
    <3> QED BY <1>0, <3>1, NoJobTyped DEF Job, Args, NoJob
  <2> HIDE DEF j
  <2>3. ThreadTypeOK' /\ WorkerTypeOK'
    BY <2>1, <2>2, StartTyped
  <2>4. IdTypeOK'
    BY <2>1, <1>0 DEF TypeOK, IdTypeOK, Args, callVars, diskVars
  <2> QED BY <2>1, <2>3, <2>4, ReturnTyped, TypeFrame DEF TypeOK, diskVars
<1>3. CASE fingerprint_authenticate(c) /\ ~Refuse(c)
  <2> DEFINE j == [NoJob EXCEPT !.op = "authenticate", !.gid = req[c].gid,
                                !.operation_id = req[c].operation_id]
  <2>1. /\ operation_id' = req[c].operation_id /\ start_worker(j) /\ Return(c)
        /\ UNCHANGED <<deviceVars, groupVars, idVars, challenge, diskVars>>
    BY <1>3 DEF fingerprint_authenticate
  <2>2. j \in Job /\ j.op = "authenticate"
    BY <1>0, NoJobTyped DEF Job, Args, NoJob
  <2> HIDE DEF j
  <2>3. ThreadTypeOK' /\ WorkerTypeOK'
    BY <2>1, <2>2, StartTyped
  <2>4. IdTypeOK'
    BY <2>1, <1>0 DEF TypeOK, IdTypeOK, Args, idVars, diskVars
  <2> QED BY <2>1, <2>3, <2>4, ReturnTyped, TypeFrame DEF TypeOK, diskVars
<1> QED BY <1>1, <1>2, <1>3

\* The calls that change the gallery.
LEMMA GalleryCallTyped ==
    ASSUME TypeOK, NEW c \in Clients,
           fingerprint_remove(c) \/ fingerprint_set_active_group(c)
    PROVE  TypeOK'
<1>0. req[c] \in Args
  BY DEF TypeOK, ClientTypeOK
<1>1. CASE Refuse(c)
  BY <1>1, RefuseTyped
<1>2. CASE fingerprint_remove(c) /\ ~Refuse(c)
  <2>1. PICK gone \in Deletions(req[c].fid) :
          /\ files' = WithoutFiles(gone)
          /\ templates' \in load_templates(Directory(WithoutFiles(gone), store_path))
          /\ ToReport(c, gone)
    BY <1>2 DEF fingerprint_remove
  <2>2. /\ lib_path' = store_path
        /\ rotate_authenticator(templates', store_path, secure_user_id)
        /\ UNCHANGED <<deviceVars, threadVars, active_gid, store_path, secure_user_id,
                       callVars, workerVars>>
    BY <1>2 DEF fingerprint_remove
  <2>3. gone \in SUBSET Fid
    <3>1. Range(templates) \in SUBSET Fid
      BY DEF Range, TypeOK, GroupTypeOK
    <3> QED BY <3>1 DEF Deletions
  <2>4. WithoutFiles(gone) \in [Gids -> SUBSET Fid]
    BY <2>3, FilesTyped DEF TypeOK
  <2>5. templates' \in Seq(Fid) /\ Len(templates') <= MaxTemplates
    <3>1. Directory(WithoutFiles(gone), store_path) \in SUBSET Fid
      BY <2>4 DEF Directory, TypeOK, GroupTypeOK
    <3> QED BY <2>1, <3>1, LoadTyped
  <2>6. GroupTypeOK'
    BY <2>1, <2>2, <2>4, <2>5 DEF TypeOK, GroupTypeOK
  <2>7. IdTypeOK'
    <3>1. store_path \in Gids \cup {NoPath} /\ secure_user_id \in Users \cup {0}
      BY DEF TypeOK, GroupTypeOK, IdTypeOK
    <3> QED BY <2>2, <2>5, <3>1, RotateTyped DEF TypeOK, IdTypeOK, callVars
  <2> QED BY <2>1, <2>2, <2>3, <2>6, <2>7, ReportTyped, TypeFrame DEF TypeOK
<1>3. CASE fingerprint_set_active_group(c) /\ ~Refuse(c) /\ req[c].too_long
  <2>1. /\ store_path' = NoPath /\ Return(c)
        /\ UNCHANGED <<deviceVars, threadVars, active_gid, templates, lib_path, idVars,
                       callVars, diskVars, workerVars>>
    BY <1>3 DEF fingerprint_set_active_group
  <2>2. GroupTypeOK'
    BY <2>1 DEF TypeOK, GroupTypeOK, diskVars
  <2> QED BY <2>1, <2>2, ReturnTyped, TypeFrame DEF TypeOK, diskVars
<1>4. CASE fingerprint_set_active_group(c) /\ ~Refuse(c) /\ ~req[c].too_long
  <2> DEFINE g == req[c].gid
             m == Stored(g)
  <2>1. /\ active_gid' = g /\ store_path' = g /\ lib_path' = g
        /\ templates' \in load_templates(files[g])
        /\ Return(c)
        /\ UNCHANGED <<deviceVars, threadVars, callVars, files, workerVars>>
    BY <1>4 DEF fingerprint_set_active_group
  <2>2. \/ MetadataUnreadable
        \/ /\ secure_user_id' = m.user
           /\ \/ /\ templates' = <<>> \/ m.authenticator # 0
                 /\ authenticator_id' = IF templates' = <<>> THEN 0 ELSE m.authenticator
                 /\ UNCHANGED <<meta, drawn_for>>
              \/ rotate_authenticator(templates', g, m.user)
    BY <1>4 DEF fingerprint_set_active_group
  <2>3. g \in Gids
    BY <1>0 DEF Args
  <2>4. m \in Metadata
    BY <2>3 DEF Stored, TypeOK, IdTypeOK, Metadata
  <2>5. templates' \in Seq(Fid) /\ Len(templates') <= MaxTemplates
    BY <2>1, <2>3, LoadTyped DEF TypeOK, GroupTypeOK
  <2> HIDE DEF g, m
  <2>6. GroupTypeOK'
    BY <2>1, <2>3, <2>5 DEF TypeOK, GroupTypeOK
  <2>7. m.user \in Users \cup {0} /\ m.authenticator \in AuthIds \cup {0}
    BY <2>4 DEF Metadata
  <2>8. IdTypeOK'
    <3>1. CASE MetadataUnreadable
      BY <2>1, <3>1 DEF MetadataUnreadable, TypeOK, IdTypeOK, callVars
    <3>2. CASE rotate_authenticator(templates', g, m.user) /\ secure_user_id' = m.user
      BY <2>1, <2>3, <2>5, <2>7, <3>2, RotateTyped DEF TypeOK, IdTypeOK, callVars
    <3>3. CASE /\ secure_user_id' = m.user
               /\ authenticator_id' = IF templates' = <<>> THEN 0 ELSE m.authenticator
               /\ UNCHANGED <<meta, drawn_for>>
      BY <2>1, <2>7, <3>3 DEF TypeOK, IdTypeOK, callVars
    <3> QED BY <2>2, <3>1, <3>2, <3>3
  <2> QED BY <2>1, <2>6, <2>8, ReturnTyped, TypeFrame DEF TypeOK
<1> QED BY <1>1, <1>2, <1>3, <1>4

\* The calls of a single critical section, open(), close() and a crash.
LEMMA DeviceTyped ==
    ASSUME TypeOK,
           \/ \E c \in Clients : fingerprint_pre_enroll(c) \/ fingerprint_post_enroll(c)
                                 \/ fingerprint_set_notify(c) \/ fingerprint_close(c)
           \/ fingerprint_open \/ Crash
    PROVE  TypeOK'
<1>1. ASSUME NEW c \in Clients, fingerprint_pre_enroll(c) \/ fingerprint_post_enroll(c)
      PROVE  TypeOK'
  <2>1. challenge' \in 0..MaxChallenge
    BY <1>1, ConstantsAssumption DEF fingerprint_pre_enroll, fingerprint_post_enroll
  <2>2. UNCHANGED <<deviceVars, threadVars, groupVars, idVars, operation_id, diskVars,
                    clientVars, workerVars>>
    BY <1>1 DEF fingerprint_pre_enroll, fingerprint_post_enroll
  <2>3. IdTypeOK'
    BY <2>1, <2>2 DEF TypeOK, IdTypeOK, idVars, diskVars
  <2> QED BY <2>2, <2>3, TypeFrame DEF TypeOK, diskVars
<1>2. ASSUME NEW c \in Clients, fingerprint_set_notify(c)
      PROVE  TypeOK'
  <2>1. ThreadTypeOK'
    BY <1>2 DEF fingerprint_set_notify, TypeOK, ThreadTypeOK, threadVars
  <2> QED BY <1>2, <2>1, TypeFrame DEF fingerprint_set_notify, TypeOK, diskVars
<1>3. ASSUME NEW c \in Clients, fingerprint_close(c)
      PROVE  TypeOK'
  <2>1. ThreadTypeOK' /\ GroupTypeOK' /\ IdTypeOK'
    BY <1>3, FreshTyped DEF fingerprint_close, diskVars, TypeOK, GroupTypeOK
  <2> QED BY <1>3, <2>1, ReturnTyped, TypeFrame DEF fingerprint_close, TypeOK
<1>4. CASE fingerprint_open
  <2>1. ThreadTypeOK' /\ GroupTypeOK' /\ IdTypeOK'
    BY <1>4, FreshTyped DEF fingerprint_open, diskVars, TypeOK, GroupTypeOK
  <2> QED BY <1>4, <2>1, TypeFrame DEF fingerprint_open, TypeOK
<1>5. CASE Crash
  <2>1. files' \in [Gids -> SUBSET Fid]
    <3>1. CASE UNCHANGED files
      BY <3>1 DEF TypeOK, GroupTypeOK
    <3>2. CASE \E c \in Clients :
                 \E gone \in SUBSET {f \in Range(templates) : req[c].fid \in {0, f}} :
                   files' = WithoutFiles(gone)
      <4>1. Range(templates) \in SUBSET Fid
        BY DEF Range, TypeOK, GroupTypeOK
      <4> QED BY <3>2, <4>1, FilesTyped DEF TypeOK
    <3> QED BY <1>5, <3>1, <3>2 DEF Crash
  <2>2. ThreadTypeOK' /\ GroupTypeOK' /\ IdTypeOK'
    BY <1>5, <2>1, FreshTyped DEF Crash
  <2>3. ClientTypeOK'
    BY <1>5, RequestTyped DEF Crash, ClientTypeOK
  <2>4. WorkerTypeOK'
    BY <1>5, NoJobTyped DEF Crash, WorkerTypeOK
  <2> QED BY <2>2, <2>3, <2>4 DEF TypeOK
<1> QED BY <1>1, <1>2, <1>3, <1>4, <1>5

\* The index fp_identify_finger returned is still one of the gallery when
\* send_authentication_success uses it.
MatchInBounds == \A w \in Workers : wpc[w] = "match" => job[w].index \in DOMAIN templates

\* A step of a worker that leaves everything but the workers alone.
LEMMA OnlyWorkerTyped ==
    ASSUME TypeOK, OnlyWorker, WorkerTypeOK'
    PROVE  TypeOK'
BY TypeFrame DEF OnlyWorker, TypeOK, diskVars

\* The clock changes what a worker will read from it and nothing else.
LEMMA ClockEffect ==
    ASSUME TypeOK, NEW w \in Workers, Clock(w)
    PROVE  /\ UNCHANGED wpc /\ OnlyWorker
           /\ \A v \in Workers \ {w} : job'[v] = job[v]
           /\ job' \in [Workers -> Job]
           /\ job'[w].op = job[w].op /\ job'[w].gid = job[w].gid
           /\ job'[w].operation_id = job[w].operation_id
           /\ job'[w].remaining = job[w].remaining
           /\ job'[w].fid = job[w].fid /\ job'[w].index = job[w].index
           /\ job'[w].msg = job[w].msg /\ job'[w].next = job[w].next
           /\ job'[w].told = job[w].told
           /\ job'[w].expired \/ wpc[w] # "post" \/ job'[w].setback
           /\ job[w].setback => job'[w].setback
<1>0. job \in [Workers -> Job] /\ job[w] \in Job
  BY DEF TypeOK, WorkerTypeOK
<1>1. \/ /\ job'[w] = [job[w] EXCEPT !.expired = TRUE]
         /\ job' = [job EXCEPT ![w] = [job[w] EXCEPT !.expired = TRUE]]
      \/ /\ job'[w] = [job[w] EXCEPT !.expired = FALSE, !.setback = @ \/ wpc[w] = "post"]
         /\ job' = [job EXCEPT ![w] = [job[w] EXCEPT !.expired = FALSE,
                                                     !.setback = @ \/ wpc[w] = "post"]]
  BY <1>0 DEF Clock, DeadlinePasses, ClockSetBack
<1>2. job'[w] \in Job
  BY <1>0, <1>1 DEF Job
<1>3. UNCHANGED wpc /\ OnlyWorker
  BY DEF Clock, DeadlinePasses, ClockSetBack
<1>4. job' \in [Workers -> Job] /\ \A v \in Workers \ {w} : job'[v] = job[v]
  BY <1>0, <1>1, <1>2
<1>5. /\ job'[w].op = job[w].op /\ job'[w].gid = job[w].gid
      /\ job'[w].operation_id = job[w].operation_id
      /\ job'[w].remaining = job[w].remaining
      /\ job'[w].fid = job[w].fid /\ job'[w].index = job[w].index
      /\ job'[w].msg = job[w].msg /\ job'[w].next = job[w].next
      /\ job'[w].told = job[w].told
  <2>1. CASE job'[w] = [job[w] EXCEPT !.expired = TRUE]
    BY <1>0, <2>1 DEF Job
  <2>2. CASE job'[w] = [job[w] EXCEPT !.expired = FALSE, !.setback = @ \/ wpc[w] = "post"]
    BY <1>0, <2>2 DEF Job
  <2> QED BY <1>1, <2>1, <2>2
<1>6. /\ job'[w].expired \/ wpc[w] # "post" \/ job'[w].setback
      /\ job[w].setback => job'[w].setback
  <2>1. CASE job'[w] = [job[w] EXCEPT !.expired = TRUE]
    BY <1>0, <2>1 DEF Job
  <2>2. CASE job'[w] = [job[w] EXCEPT !.expired = FALSE, !.setback = @ \/ wpc[w] = "post"]
    BY <1>0, <2>2 DEF Job
  <2> QED BY <1>1, <2>1, <2>2
<1> QED BY <1>3, <1>4, <1>5, <1>6

\* The control steps of a worker.
LEMMA WorkerMoveTyped ==
    ASSUME TypeOK, NEW w \in Workers,
           EnrollLoop(w) \/ EnrollPost(w) \/ AuthenticateLoop(w) \/ NotifyGood(w)
           \/ notify_message(w) \/ Clock(w) \/ finish_worker(w)
    PROVE  TypeOK'
<1>0. job[w] \in Job
  BY DEF TypeOK, WorkerTypeOK
<1>1. CASE EnrollLoop(w) \/ AuthenticateLoop(w) \/ NotifyGood(w)
  BY <1>1, GotoTyped, OnlyWorkerTyped
     DEF EnrollLoop, AuthenticateLoop, NotifyGood, TypeOK, RunningLabels
<1>2. CASE EnrollPost(w)
  <2>1. Error("TIMEOUT") \in Message
    BY MessagesTyped DEF ErrorCode
  <2> QED BY <1>2, <2>1, GotoTyped, SendTyped, OnlyWorkerTyped
             DEF EnrollPost, TypeOK, RunningLabels
<1>3. CASE notify_message(w)
  <2>1. job[w].next \in {"loop", "post", "done"} /\ job[w].told \in BOOLEAN
    BY <1>0 DEF Job
  <2>2. [job[w] EXCEPT !.told = @ \/ (notify /\ Terminal(job[w].msg))] \in Job
    BY <1>0 DEF Job
  <2>3. WorkerTypeOK'
    BY <1>3, <2>1, <2>2 DEF notify_message, TypeOK, WorkerTypeOK, RunningLabels
  <2> QED BY <1>3, <2>3, OnlyWorkerTyped DEF notify_message
<1>4. CASE Clock(w)
  <2>1. WorkerTypeOK'
    BY <1>4, ClockEffect DEF TypeOK, WorkerTypeOK
  <2> QED BY <1>4, <2>1, ClockEffect, OnlyWorkerTyped
<1>5. CASE finish_worker(w)
  <2>1. WorkerTypeOK'
    BY <1>5, GotoTyped DEF finish_worker, TypeOK
  <2>2. ThreadTypeOK'
    BY <1>5 DEF finish_worker, TypeOK, ThreadTypeOK, deviceVars
  <2> QED BY <1>5, <2>1, <2>2, TypeFrame DEF finish_worker, TypeOK, diskVars
<1> QED BY <1>1, <1>2, <1>3, <1>4, <1>5

\* The steps of an enrolment that scan and store.
LEMMA EnrollTyped ==
    ASSUME TypeOK, NEW w \in Workers,
           EnrollScan(w) \/ EnrollFid(w) \/ EnrollSave(w) \/ EnrollCommit(w)
    PROVE  TypeOK'
<1>0. job[w] \in Job /\ active_gid \in Gids /\ store_path \in Gids \cup {NoPath}
  BY DEF TypeOK, WorkerTypeOK, GroupTypeOK
<1>e. \A code \in ErrorCode : Error(code) \in Message
  BY MessagesTyped
<1>1. CASE EnrollScan(w)
  <2> DEFINE n == RemainingAfterPass(job[w].remaining)
  <2>1. n \in 0..Stages
    BY <1>0, ConstantsAssumption DEF RemainingAfterPass, Job
  <2>2. Enrolling(active_gid, 0, n) \in Message
    BY <1>0, <2>1, MessagesTyped
  <2> HIDE DEF n
  <2>3. ASSUME Goto(w, "done") \/ Goto(w, "fid")
        PROVE  WorkerTypeOK'
    BY <2>3, GotoTyped DEF TypeOK, RunningLabels
  <2>4. ASSUME Send(w, Error("HW_UNAVAILABLE"), "post") \/ Send(w, Acquired, "loop")
               \/ Send(w, Error("UNABLE_TO_PROCESS"), "done")
        PROVE  WorkerTypeOK'
    BY <2>4, <1>e, MessagesTyped, SendTyped DEF TypeOK, ErrorCode
  <2>5. ASSUME /\ wpc' = [wpc EXCEPT ![w] = "notify"]
               /\ job' = [job EXCEPT ![w].remaining = n, ![w].next = "loop",
                                     ![w].msg = Enrolling(active_gid, 0, n)]
        PROVE  WorkerTypeOK'
    <3>1. [job[w] EXCEPT !.remaining = n, !.next = "loop",
                         !.msg = Enrolling(active_gid, 0, n)] \in Job
      BY <1>0, <2>1, <2>2 DEF Job
    <3> QED BY <2>5, <3>1 DEF TypeOK, WorkerTypeOK, RunningLabels
  <2>6. WorkerTypeOK'
    BY <1>1, <2>3, <2>4, <2>5 DEF EnrollScan, n
  <2> QED BY <1>1, <2>6, OnlyWorkerTyped DEF EnrollScan
<1>2. CASE EnrollFid(w)
  <2>1. ASSUME Send(w, Error("NO_SPACE"), "done")
        PROVE  WorkerTypeOK'
    BY <2>1, <1>e, SendTyped DEF TypeOK, ErrorCode
  <2>2. ASSUME /\ find_free_fid # 0
               /\ wpc' = [wpc EXCEPT ![w] = "save"]
               /\ job' = [job EXCEPT ![w].fid = find_free_fid]
        PROVE  WorkerTypeOK'
    <3>1. [job[w] EXCEPT !.fid = find_free_fid] \in Job
      BY <1>0, FreeFidTyped DEF Job
    <3>2. [job[w] EXCEPT !.fid = find_free_fid].fid # 0
      BY <1>0, <2>2 DEF Job
    <3> QED BY <2>2, <3>1, <3>2 DEF TypeOK, WorkerTypeOK, RunningLabels
  <2>3. WorkerTypeOK'
    BY <1>2, <2>1, <2>2 DEF EnrollFid
  <2> QED BY <1>2, <2>3, OnlyWorkerTyped DEF EnrollFid
<1>3. CASE EnrollSave(w)
  <2>1. UNCHANGED <<deviceVars, threadVars, groupVars, idVars, callVars, meta, clientVars>>
    BY <1>3 DEF EnrollSave
  <2>2. WorkerTypeOK'
    BY <1>3, <1>e, GotoTyped, SendTyped DEF EnrollSave, TypeOK, RunningLabels, ErrorCode
  <2>3. job[w].fid \in Fid
    BY <1>0, <1>3 DEF EnrollSave, At, TypeOK, WorkerTypeOK, Job
  <2>4. files' \in [Gids -> SUBSET Fid]
    BY <1>0, <1>3, <2>3 DEF EnrollSave, TypeOK, GroupTypeOK
  <2>5. GroupTypeOK'
    BY <2>1, <2>4 DEF TypeOK, GroupTypeOK, groupVars
  <2> QED BY <2>1, <2>2, <2>5, TypeFrame DEF TypeOK
<1>4. CASE EnrollCommit(w)
  <2>1. /\ templates' \in load_templates(Directory(files, store_path))
        /\ lib_path' = store_path
        /\ rotate_authenticator(templates', store_path, secure_user_id)
        /\ Send(w, Enrolling(active_gid, job[w].fid, 0), "done")
        /\ UNCHANGED <<deviceVars, threadVars, active_gid, store_path, secure_user_id,
                       callVars, files, clientVars>>
    BY <1>4 DEF EnrollCommit
  <2>2. templates' \in Seq(Fid) /\ Len(templates') <= MaxTemplates
    <3>1. Directory(files, store_path) \in SUBSET Fid
      BY DEF Directory, TypeOK, GroupTypeOK
    <3> QED BY <2>1, <3>1, LoadTyped
  <2>3. GroupTypeOK'
    BY <2>1, <2>2 DEF TypeOK, GroupTypeOK
  <2>4. IdTypeOK'
    BY <1>0, <2>1, <2>2, RotateTyped DEF TypeOK, IdTypeOK, callVars
  <2>5. WorkerTypeOK'
    <3>1. Enrolling(active_gid, job[w].fid, 0) \in Message
      BY <1>0, MessagesTyped, ConstantsAssumption DEF Job
    <3> QED BY <2>1, <3>1, SendTyped DEF TypeOK
  <2> QED BY <2>1, <2>3, <2>4, <2>5, TypeFrame DEF TypeOK
<1> QED BY <1>1, <1>2, <1>3, <1>4

\* The steps of an authentication that scan and report.
LEMMA AuthenticateTyped ==
    ASSUME TypeOK, MatchInBounds, NEW w \in Workers, AuthenticateScan(w) \/ AuthenticateMatch(w)
    PROVE  TypeOK'
<1>0. job[w] \in Job /\ active_gid \in Gids
  BY DEF TypeOK, WorkerTypeOK, GroupTypeOK
<1>1. CASE AuthenticateScan(w)
  <2>1. ASSUME Goto(w, "done")
        PROVE  WorkerTypeOK'
    BY <2>1, GotoTyped DEF TypeOK, RunningLabels
  <2>2. ASSUME Send(w, Error("HW_UNAVAILABLE"), "done") \/ Send(w, Error("UNABLE_TO_PROCESS"), "done")
               \/ Send(w, Authenticated(active_gid, 0, 0, 0, 0), "loop") \/ Send(w, Acquired, "loop")
        PROVE  WorkerTypeOK'
    <3>1. \A code \in ErrorCode : Error(code) \in Message
      BY MessagesTyped
    <3>2. Authenticated(active_gid, 0, 0, 0, 0) \in Message /\ Acquired \in Message
      BY <1>0, MessagesTyped
    <3> QED BY <2>2, <3>1, <3>2, SendTyped DEF TypeOK, ErrorCode
  <2>3. ASSUME \E i \in DOMAIN templates :
                 /\ wpc' = [wpc EXCEPT ![w] = "match"]
                 /\ job' = [job EXCEPT ![w].index = i, ![w].fid = templates[i]]
        PROVE  WorkerTypeOK'
    <3>1. PICK i \in DOMAIN templates :
            /\ wpc' = [wpc EXCEPT ![w] = "match"]
            /\ job' = [job EXCEPT ![w].index = i, ![w].fid = templates[i]]
      BY <2>3
    <3>2. i \in 0..MaxTemplates /\ templates[i] \in Fid
      BY ConstantsAssumption DEF TypeOK, GroupTypeOK
    <3>3. [job[w] EXCEPT !.index = i, !.fid = templates[i]] \in Job
      BY <1>0, <3>2 DEF Job
    <3> QED BY <3>1, <3>3 DEF TypeOK, WorkerTypeOK, RunningLabels
  <2>4. WorkerTypeOK'
    BY <1>1, <2>1, <2>2, <2>3 DEF AuthenticateScan
  <2> QED BY <1>1, <2>4, OnlyWorkerTyped DEF AuthenticateScan
<1>2. CASE AuthenticateMatch(w)
  <2> DEFINE m == Authenticated(active_gid, templates[job[w].index], operation_id,
                                secure_user_id, authenticator_id)
  <2>1. templates[job[w].index] \in Fid
    BY <1>2 DEF AuthenticateMatch, At, MatchInBounds, TypeOK, GroupTypeOK
  <2>2. m \in Message
    BY <1>0, <2>1, MessagesTyped DEF TypeOK, IdTypeOK
  <2> HIDE DEF m
  <2>3. [job[w] EXCEPT !.msg = m, !.next = "done"] \in Job
    BY <1>0, <2>2 DEF Job
  <2>4. /\ wpc' = [wpc EXCEPT ![w] = "good"]
        /\ job' = [job EXCEPT ![w].msg = m, ![w].next = "done"]
    BY <1>2 DEF AuthenticateMatch, m
  <2>5. WorkerTypeOK'
    BY <2>3, <2>4 DEF TypeOK, WorkerTypeOK, RunningLabels
  <2> QED BY <1>2, <2>5, OnlyWorkerTyped DEF AuthenticateMatch
<1> QED BY <1>1, <1>2

LEMMA TypeStep == TypeOK /\ MatchInBounds /\ [Next]_vars => TypeOK'
<1> SUFFICES ASSUME TypeOK, MatchInBounds, [Next]_vars PROVE TypeOK'
  OBVIOUS
<1>1. CASE \E c \in Clients : ClientStep(c) \/ NewCall(c)
  BY <1>1, MoveTyped, StartCallTyped, GalleryCallTyped, DeviceTyped DEF ClientStep, NewCall
<1>2. CASE \E w \in Workers : WorkerStep(w) \/ Clock(w)
  BY <1>2, WorkerMoveTyped, EnrollTyped, AuthenticateTyped
     DEF WorkerStep, enroll_worker, authenticate_worker
<1>3. CASE fingerprint_open \/ Crash
  BY <1>3, DeviceTyped
<1>4. CASE UNCHANGED vars
  BY <1>4, TypeFrame DEF TypeOK, vars, diskVars
<1> QED BY <1>1, <1>2, <1>3, <1>4 DEF Next

-----------------------------------------------------------------------------
(* Thread safety. *)

\* A client is inside at most one call; close() is alone in the HAL and frees
\* the device only after the last handle was joined; nothing runs in a closed
\* device.
CallProtocol ==
    /\ \A c \in Clients : pc[c] = "idle" <=> req[c].op = "none"
    /\ \A c, d \in Clients : req[c].op = "close" /\ c # d => pc[d] = "idle"
    /\ \A c \in Clients :
         /\ pc[c] = "closing" => req[c].op = "close"
         /\ req[c].op = "close" /\ pc[c] \in {"stop", "stop_finished", "closing"} =>
              ~worker_joinable
    /\ ~opened => ~worker_active /\ ~worker_joinable /\ \A c \in Clients : pc[c] = "idle"

ThreadInv == OneSensorUser /\ JoinOwnership /\ CallProtocol

\* The state that ThreadInv is about, apart from the workers.
ownerVars == <<opened, worker_active, worker_joinable, operation, handle, pc, req, joins>>

LEMMA ThreadInit == Init => ThreadInv
<1> SUFFICES ASSUME Init PROVE ThreadInv
  OBVIOUS
<1>1. OneSensorUser
  BY DEF Init, OneSensorUser, Running, RunningLabels
<1>2. JoinOwnership
  BY DEF Init, JoinOwnership, JoinLabels
<1>3. CallProtocol
  BY DEF Init, CallProtocol, NoRequest
<1> QED BY <1>1, <1>2, <1>3 DEF ThreadInv

\* A worker that stays running disturbs nothing.
LEMMA WorkerKeeps ==
    ASSUME TypeOK, ThreadInv, NEW w \in Workers, Running(w), NEW l \in RunningLabels,
           wpc' = [wpc EXCEPT ![w] = l], \A v \in Workers : job'[v].op = job[v].op,
           UNCHANGED ownerVars
    PROVE  ThreadInv'
<1>1. \A v \in Workers : Running(v)' <=> Running(v)
  BY DEF Running, TypeOK, WorkerTypeOK
<1>2. \A v \in Workers : wpc'[v] = "free" <=> wpc[v] = "free"
  BY DEF Running, RunningLabels, TypeOK, WorkerTypeOK
<1>3. OneSensorUser'
  BY <1>1 DEF ThreadInv, OneSensorUser, ownerVars
<1>4. JoinOwnership'
  BY <1>2 DEF ThreadInv, JoinOwnership, ownerVars, TypeOK, ClientTypeOK
<1>5. CallProtocol'
  BY DEF ThreadInv, CallProtocol, ownerVars
<1> QED BY <1>3, <1>4, <1>5 DEF ThreadInv

\* Steps that touch neither workers nor owners disturb nothing.
LEMMA NothingMoves ==
    ASSUME ThreadInv, UNCHANGED ownerVars, UNCHANGED workerVars
    PROVE  ThreadInv'
<1>1. OneSensorUser'
  BY DEF ThreadInv, OneSensorUser, ownerVars, workerVars, Running
<1>2. JoinOwnership'
  BY DEF ThreadInv, JoinOwnership, ownerVars, workerVars
<1>3. CallProtocol'
  BY DEF ThreadInv, CallProtocol, ownerVars
<1> QED BY <1>1, <1>2, <1>3 DEF ThreadInv

\* A client that moves on inside its call, or leaves it, without a handle.
LEMMA ClientMoves ==
    ASSUME TypeOK, ThreadInv, NEW c \in Clients, pc[c] \notin JoinLabels \cup {"idle"},
           \/ Return(c)
           \/ \E l \in {"body", "canceled", "report"} :
                pc' = [pc EXCEPT ![c] = l] /\ UNCHANGED <<req, joins>>
           \/ /\ pc' = [pc EXCEPT ![c] = "closing"] /\ UNCHANGED <<req, joins>>
              /\ req[c].op = "close" /\ ~worker_joinable,
           UNCHANGED <<opened, worker_active, worker_joinable, operation, handle, workerVars>>
    PROVE  ThreadInv'
<1>1. OneSensorUser'
  BY DEF ThreadInv, OneSensorUser, workerVars, Running
<1>2. joins[c] = NoWorker /\ joins' = joins
  BY DEF ThreadInv, JoinOwnership, Return, TypeOK, ClientTypeOK
<1>3. \A d \in Clients : pc'[d] \in JoinLabels <=> pc[d] \in JoinLabels
  BY DEF Return, TypeOK, ClientTypeOK, JoinLabels
<1>4. JoinOwnership'
  BY <1>2, <1>3 DEF ThreadInv, JoinOwnership, workerVars
<1>5. CallProtocol'
  BY DEF ThreadInv, CallProtocol, Return, NoRequest, TypeOK, ClientTypeOK
<1> QED BY <1>1, <1>4, <1>5 DEF ThreadInv

\* pthread_join frees the thread for the one client that held its handle.
LEMMA JoinKeeps ==
    ASSUME TypeOK, ThreadInv, NEW c \in Clients, pc[c] \in JoinLabels, Join(c),
           \/ /\ pc' = [pc EXCEPT ![c] = "idle"] /\ req' = [req EXCEPT ![c] = NoRequest]
           \/ \E l \in {"body", "canceled"} : pc' = [pc EXCEPT ![c] = l] /\ UNCHANGED req
           \/ /\ pc' = [pc EXCEPT ![c] = "closing"] /\ UNCHANGED req
              /\ req[c].op = "close" /\ ~worker_joinable,
           UNCHANGED <<opened, worker_active, worker_joinable, operation, handle>>
    PROVE  ThreadInv'
<1> DEFINE w == joins[c]
<1>1. w \in Workers
  BY DEF ThreadInv, JoinOwnership, TypeOK, ClientTypeOK
<1>2. /\ wpc[w] = "exited" /\ wpc' = [wpc EXCEPT ![w] = "free"]
      /\ job' = [job EXCEPT ![w] = NoJob] /\ joins' = [joins EXCEPT ![c] = NoWorker]
  BY DEF Join
<1>3. \A d \in Clients : d # c => joins[d] # w
  BY <1>1, MarkersAssumption DEF ThreadInv, JoinOwnership
<1>4. ~(worker_joinable /\ handle = w)
  BY <1>1, MarkersAssumption DEF ThreadInv, JoinOwnership
<1> HIDE DEF w
<1>5. \A v \in Workers : /\ Running(v)' <=> Running(v)
                         /\ Running(v) => job'[v] = job[v]
  BY <1>1, <1>2 DEF Running, RunningLabels, TypeOK, WorkerTypeOK
<1>6. OneSensorUser'
  BY <1>5 DEF ThreadInv, OneSensorUser
<1>7. \A d \in Clients : pc'[d] \in JoinLabels <=> pc[d] \in JoinLabels /\ d # c
  BY DEF TypeOK, ClientTypeOK, JoinLabels
<1>8. JoinOwnership'
  <2>1. (worker_joinable => handle \in Workers /\ wpc[handle] # "free")'
    BY <1>1, <1>2, <1>4 DEF ThreadInv, JoinOwnership, TypeOK, WorkerTypeOK
  <2>2. \A d \in Clients :
          /\ pc'[d] \in JoinLabels <=> joins'[d] # NoWorker
          /\ joins'[d] # NoWorker =>
               /\ wpc'[joins'[d]] # "free"
               /\ ~(worker_joinable' /\ handle' = joins'[d])
    BY <1>1, <1>2, <1>3, <1>7 DEF ThreadInv, JoinOwnership, TypeOK, WorkerTypeOK, ClientTypeOK
  <2>3. \A d, e \in Clients : joins'[d] = joins'[e] /\ joins'[d] # NoWorker => d = e
    BY <1>2 DEF ThreadInv, JoinOwnership, TypeOK, ClientTypeOK
  <2>4. \A v \in Workers : wpc'[v] # "free" =>
          \/ worker_joinable' /\ handle' = v
          \/ \E d \in Clients : joins'[d] = v
    <3> SUFFICES ASSUME NEW v \in Workers, wpc'[v] # "free", ~(worker_joinable /\ handle = v)
                 PROVE  \E d \in Clients : joins'[d] = v
      OBVIOUS
    <3>1. v # w /\ wpc[v] # "free"
      BY <1>1, <1>2 DEF TypeOK, WorkerTypeOK
    <3>2. PICK d \in Clients : joins[d] = v
      BY <3>1 DEF ThreadInv, JoinOwnership
    <3>3. d # c
      BY <3>1, <3>2 DEF w
    <3> QED BY <1>2, <3>2, <3>3 DEF TypeOK, ClientTypeOK
  <2> QED BY <2>1, <2>2, <2>3, <2>4 DEF JoinOwnership
<1>9. CallProtocol'
  BY DEF ThreadInv, CallProtocol, NoRequest, TypeOK, ClientTypeOK, JoinLabels
<1> QED BY <1>6, <1>8, <1>9 DEF ThreadInv

\* The handle of the device moves to the stack of the client that will join it.
LEMMA TakeKeeps ==
    ASSUME TypeOK, ThreadInv, NEW c \in Clients, pc[c] \notin JoinLabels, worker_joinable,
           NEW l \in JoinLabels, pc' = [pc EXCEPT ![c] = l],
           joins' = [joins EXCEPT ![c] = handle], worker_joinable' = FALSE,
           UNCHANGED <<worker_active, operation, handle, workerVars>>
    PROVE  OneSensorUser' /\ JoinOwnership'
<1>1. OneSensorUser'
  BY DEF ThreadInv, OneSensorUser, workerVars, Running
<1>2. handle \in Workers /\ wpc[handle] # "free" /\ joins[c] = NoWorker
  BY DEF ThreadInv, JoinOwnership
<1>3. \A d \in Clients : /\ d # c => joins'[d] = joins[d]
                         /\ joins'[c] = handle
                         /\ pc'[d] \in JoinLabels <=> pc[d] \in JoinLabels \/ d = c
  BY DEF TypeOK, ClientTypeOK
<1>4. JoinOwnership'
  <2>1. \A d \in Clients :
          /\ pc'[d] \in JoinLabels <=> joins'[d] # NoWorker
          /\ joins'[d] # NoWorker => wpc'[joins'[d]] # "free"
    BY <1>2, <1>3, MarkersAssumption DEF ThreadInv, JoinOwnership, workerVars
  <2>2. \A d, e \in Clients : joins'[d] = joins'[e] /\ joins'[d] # NoWorker => d = e
    BY <1>2, <1>3 DEF ThreadInv, JoinOwnership
  <2>3. \A v \in Workers : wpc'[v] # "free" => \E d \in Clients : joins'[d] = v
    <3> SUFFICES ASSUME NEW v \in Workers, wpc[v] # "free"
                 PROVE  \E d \in Clients : joins'[d] = v
      BY DEF workerVars
    <3>1. CASE handle = v
      BY <1>3, <3>1
    <3>2. CASE handle # v
      <4>1. PICK d \in Clients : joins[d] = v
        BY <3>2 DEF ThreadInv, JoinOwnership
      <4> QED BY <1>2, <1>3, <4>1, MarkersAssumption
    <3> QED BY <3>1, <3>2
  <2> QED BY <2>1, <2>2, <2>3 DEF JoinOwnership
<1> QED BY <1>1, <1>4

\* A thread is created only when none is running and no handle is held.
LEMMA StartKeeps ==
    ASSUME TypeOK, ThreadInv, NEW c \in Clients, pc[c] = "body", req[c].op # "close", ~Busy,
           NEW j \in Job, start_worker(j), Return(c), UNCHANGED opened
    PROVE  ThreadInv'
<1>1. \A w \in Workers : ~Running(w)
  BY DEF Busy, ThreadInv, OneSensorUser
<1>2. opened
  BY DEF ThreadInv, CallProtocol
<1>3. joins' = joins /\ joins[c] = NoWorker
  BY DEF ThreadInv, JoinOwnership, Return, TypeOK, ClientTypeOK, JoinLabels
<1>4. \A d \in Clients : pc'[d] \in JoinLabels <=> pc[d] \in JoinLabels
  BY DEF Return, TypeOK, ClientTypeOK, JoinLabels
<1>5. CallProtocol'
  <2>1. \A d \in Clients : req[d].op # "close"
    BY DEF ThreadInv, CallProtocol
  <2> QED BY <1>2, <2>1 DEF ThreadInv, CallProtocol, Return, NoRequest, TypeOK, ClientTypeOK
<1>6. CASE \E w \in Workers :
            /\ wpc[w] = "free"
            /\ wpc' = [wpc EXCEPT ![w] = "loop"]
            /\ job' = [job EXCEPT ![w] = j]
            /\ handle' = w
            /\ worker_active' = TRUE /\ worker_joinable' = TRUE
            /\ operation' = j.op
  <2>1. PICK w \in Workers :
            /\ wpc[w] = "free"
            /\ wpc' = [wpc EXCEPT ![w] = "loop"]
            /\ job' = [job EXCEPT ![w] = j]
            /\ handle' = w
            /\ worker_active' = TRUE /\ worker_joinable' = TRUE
            /\ operation' = j.op
    BY <1>6
  <2>2. \A v \in Workers : /\ Running(v)' <=> v = w
                           /\ wpc'[v] # "free" <=> wpc[v] # "free" \/ v = w
    BY <1>1, <2>1 DEF Running, RunningLabels, TypeOK, WorkerTypeOK
  <2>3. OneSensorUser'
    <3>1. job'[w].op = operation'
      BY <2>1 DEF TypeOK, WorkerTypeOK
    <3> QED BY <2>1, <2>2, <3>1 DEF OneSensorUser
  <2>4. JoinOwnership'
    <3>1. \A d \in Clients : joins[d] # w
      BY <2>1, MarkersAssumption DEF ThreadInv, JoinOwnership
    <3>2. \A d \in Clients : joins[d] # NoWorker => joins[d] \in Workers
      BY DEF TypeOK, ClientTypeOK
    <3>3. ~worker_joinable
      BY DEF Busy
    <3> QED BY <1>3, <1>4, <2>1, <2>2, <3>1, <3>2, <3>3 DEF ThreadInv, JoinOwnership
  <2> QED BY <1>5, <2>3, <2>4 DEF ThreadInv
<1>7. CASE /\ worker_active' = FALSE /\ operation' = "idle"
           /\ UNCHANGED <<worker_joinable, handle, workerVars>>
  <2>1. OneSensorUser'
    BY <1>1, <1>7 DEF OneSensorUser, Running, workerVars
  <2>2. JoinOwnership'
    BY <1>3, <1>4, <1>7 DEF ThreadInv, JoinOwnership, workerVars
  <2> QED BY <1>5, <2>1, <2>2 DEF ThreadInv
<1> QED BY <1>6, <1>7 DEF start_worker

\* In a closed device, and in one that close() is about to free, every thread
\* has been joined.
LEMMA QuietDevice ==
    ASSUME TypeOK, ThreadInv, ~opened \/ \E c \in Clients : pc[c] = "closing"
    PROVE  /\ ~worker_joinable
           /\ \A d \in Clients : joins[d] = NoWorker
           /\ \A w \in Workers : wpc[w] = "free"
<1>1. ~worker_joinable /\ \A d \in Clients : pc[d] \in {"idle", "closing"}
  BY DEF ThreadInv, CallProtocol
<1>2. \A d \in Clients : joins[d] = NoWorker
  BY <1>1 DEF ThreadInv, JoinOwnership, JoinLabels
<1> QED BY <1>1, <1>2, MarkersAssumption DEF ThreadInv, JoinOwnership

LEMMA ClientKeeps ==
    ASSUME TypeOK, ThreadInv, NEW c \in Clients, ClientStep(c) \/ NewCall(c)
    PROVE  ThreadInv'
<1>0. \A l \in {"idle", "body", "canceled", "report", "closing"} : l \notin JoinLabels
  BY DEF JoinLabels
<1>1. ASSUME pc[c] \in {"body", "canceled", "report"}, Refuse(c) PROVE ThreadInv'
  BY <1>0, <1>1, ClientMoves DEF Refuse, deviceVars, threadVars
<1>2. CASE Call(c)
  <2>1. PICK r \in Request :
          /\ MayCall(c, r.op) /\ reap_finished_worker(c) /\ req' = [req EXCEPT ![c] = r]
          /\ UNCHANGED <<opened, worker_active, operation, handle, workerVars>>
    BY <1>2 DEF Call, deviceVars
  <2>2. r.op \in Operations /\ r.op # "none"
    BY ConstantsAssumption DEF Request, Operations
  <2>3. pc[c] = "idle" /\ opened
    BY <2>1 DEF MayCall
  <2>4. CASE worker_joinable /\ ~worker_active
    <3>1. /\ worker_joinable' = FALSE /\ joins' = [joins EXCEPT ![c] = handle]
          /\ pc' = [pc EXCEPT ![c] = "reap"]
      BY <2>1, <2>4 DEF reap_finished_worker
    <3>2. OneSensorUser' /\ JoinOwnership'
      BY <1>0, <2>1, <2>3, <2>4, <3>1, TakeKeeps DEF JoinLabels
    <3>3. CallProtocol'
      BY <2>1, <2>2, <2>3, <3>1 DEF ThreadInv, CallProtocol, MayCall, TypeOK, ClientTypeOK
    <3> QED BY <3>2, <3>3 DEF ThreadInv
  <2>5. CASE ~(worker_joinable /\ ~worker_active)
    <3>1. pc' = [pc EXCEPT ![c] = "body"] /\ UNCHANGED <<worker_joinable, joins>>
      BY <2>1, <2>5 DEF reap_finished_worker
    <3>2. OneSensorUser'
      BY <2>1 DEF ThreadInv, OneSensorUser, workerVars, Running
    <3>3. JoinOwnership'
      <4>1. \A d \in Clients : pc'[d] \in JoinLabels <=> pc[d] \in JoinLabels
        BY <2>3, <3>1 DEF TypeOK, ClientTypeOK, JoinLabels
      <4> QED BY <2>1, <3>1, <4>1 DEF ThreadInv, JoinOwnership, workerVars
    <3>4. CallProtocol'
      BY <2>1, <2>2, <2>3, <3>1 DEF ThreadInv, CallProtocol, MayCall, TypeOK, ClientTypeOK
    <3> QED BY <3>2, <3>3, <3>4 DEF ThreadInv
  <2> QED BY <2>4, <2>5
<1>3. CASE ReapJoined(c)
  BY <1>3, JoinKeeps DEF ReapJoined, JoinLabels, deviceVars, threadVars
<1>4. CASE StopJoined(c)
  <2>1. req[c].op = "close" => ~worker_joinable
    BY <1>4 DEF ThreadInv, CallProtocol, StopJoined
  <2> QED BY <1>4, <2>1, JoinKeeps DEF StopJoined, JoinLabels, deviceVars, threadVars
<1>5. CASE NotifyCanceled(c)
  BY <1>1, <1>5 DEF NotifyCanceled
<1>6. CASE Report(c)
  <2>1. pc' = [pc EXCEPT ![c] = "report"] \/ Return(c)
    BY <1>6 DEF Report, TypeOK, ClientTypeOK
  <2> QED BY <1>0, <1>6, <2>1, ClientMoves DEF Report, deviceVars, threadVars
<1>7. CASE fingerprint_enroll(c)
  <2>1. CASE Refuse(c)
    BY <1>1, <1>7, <2>1 DEF fingerprint_enroll
  <2>2. CASE ~Refuse(c)
    <3> DEFINE j == [NoJob EXCEPT !.op = "enroll", !.gid = req[c].gid, !.remaining = Stages]
    <3>1. j \in Job
      <4>1. Stages \in 0..Stages /\ req[c] \in Args
        BY ConstantsAssumption DEF TypeOK, ClientTypeOK
      <4> QED BY <4>1, NoJobTyped DEF Job, Args
    <3>2. start_worker(j) /\ Return(c) /\ ~Busy /\ UNCHANGED opened
      BY <1>7, <2>2 DEF fingerprint_enroll, deviceVars
    <3> HIDE DEF j
    <3> QED BY <1>7, <3>1, <3>2, StartKeeps DEF fingerprint_enroll
  <2> QED BY <2>1, <2>2
<1>8. CASE fingerprint_authenticate(c)
  <2>1. CASE Refuse(c)
    BY <1>1, <1>8, <2>1 DEF fingerprint_authenticate
  <2>2. CASE ~Refuse(c)
    <3> DEFINE j == [NoJob EXCEPT !.op = "authenticate", !.gid = req[c].gid,
                                  !.operation_id = req[c].operation_id]
    <3>1. j \in Job
      <4>1. req[c] \in Args
        BY DEF TypeOK, ClientTypeOK
      <4> QED BY <4>1, NoJobTyped DEF Job, Args
    <3>2. start_worker(j) /\ Return(c) /\ ~Busy /\ UNCHANGED opened
      BY <1>8, <2>2 DEF fingerprint_authenticate, deviceVars
    <3> HIDE DEF j
    <3> QED BY <1>8, <3>1, <3>2, StartKeeps DEF fingerprint_authenticate
  <2> QED BY <2>1, <2>2
<1>9. CASE stop_worker(c)
  <2>1. CASE worker_joinable
    <3>1. PICK l \in JoinLabels :
            /\ pc' = [pc EXCEPT ![c] = l] /\ worker_joinable' = FALSE
            /\ joins' = [joins EXCEPT ![c] = handle]
            /\ UNCHANGED <<opened, worker_active, operation, handle, req, workerVars>>
      BY <1>9, <2>1 DEF stop_worker, JoinLabels, deviceVars
    <3>2. OneSensorUser' /\ JoinOwnership'
      BY <1>0, <1>9, <2>1, <3>1, TakeKeeps DEF stop_worker
    <3>3. CallProtocol'
      BY <1>9, <3>1 DEF stop_worker, ThreadInv, CallProtocol, TypeOK, ClientTypeOK, JoinLabels
    <3> QED BY <3>2, <3>3 DEF ThreadInv
  <2>2. CASE ~worker_joinable
    BY <1>0, <1>9, <2>2, ClientMoves DEF stop_worker, deviceVars, threadVars
  <2> QED BY <2>1, <2>2
<1>10. CASE fingerprint_enumerate(c)
  BY <1>0, <1>10, ClientMoves DEF fingerprint_enumerate, ToReport, deviceVars, threadVars
<1>11. CASE fingerprint_remove(c)
  <2>1. pc[c] = "body" /\ (Refuse(c) \/ \E gone \in Deletions(req[c].fid) : ToReport(c, gone))
    BY <1>11 DEF fingerprint_remove
  <2>2. CASE Refuse(c)
    BY <1>1, <2>1, <2>2
  <2>3. CASE ~Refuse(c)
    <3>1. UNCHANGED <<opened, worker_active, worker_joinable, operation, handle, workerVars>>
      BY <1>11, <2>3 DEF fingerprint_remove, deviceVars, threadVars
    <3> QED BY <1>0, <2>1, <2>3, <3>1, ClientMoves DEF ToReport
  <2> QED BY <2>2, <2>3
<1>12. CASE fingerprint_set_active_group(c)
  <2>1. /\ pc[c] = "body" /\ Return(c)
        /\ UNCHANGED <<opened, worker_active, worker_joinable, operation, handle, workerVars>>
    BY <1>12 DEF fingerprint_set_active_group, Refuse, deviceVars, threadVars
  <2> QED BY <1>0, <2>1, ClientMoves
<1>13. CASE fingerprint_close(c)
  <2>1. /\ pc[c] = "closing" /\ Return(c) /\ UNCHANGED workerVars
        /\ opened' = FALSE /\ worker_active' = FALSE /\ worker_joinable' = FALSE
    BY <1>13 DEF fingerprint_close, FreshMemory
  <2>2. /\ \A d \in Clients : joins[d] = NoWorker
        /\ \A w \in Workers : wpc[w] = "free"
    BY <2>1, QuietDevice
  <2>3. \A d \in Clients : pc'[d] = "idle" /\ req'[d].op = "none" /\ joins'[d] = NoWorker
    BY <2>1, <2>2 DEF Return, NoRequest, ThreadInv, CallProtocol, TypeOK, ClientTypeOK
  <2>4. OneSensorUser'
    BY <2>1, <2>2 DEF OneSensorUser, Running, RunningLabels, workerVars
  <2>5. JoinOwnership'
    BY <2>1, <2>2, <2>3 DEF JoinOwnership, JoinLabels, workerVars
  <2>6. CallProtocol'
    BY <2>1, <2>3 DEF CallProtocol
  <2> QED BY <2>4, <2>5, <2>6 DEF ThreadInv
<1>14. CASE fingerprint_pre_enroll(c) \/ fingerprint_post_enroll(c)
  BY <1>14, NothingMoves DEF fingerprint_pre_enroll, fingerprint_post_enroll, ownerVars,
                             deviceVars, threadVars, clientVars
<1>15. CASE fingerprint_set_notify(c)
  BY <1>15, NothingMoves DEF fingerprint_set_notify, ownerVars, threadVars, clientVars
<1> QED BY <1>2, <1>3, <1>4, <1>5, <1>6, <1>7, <1>8, <1>9, <1>10, <1>11, <1>12, <1>13, <1>14,
           <1>15 DEF ClientStep, NewCall

LEMMA WorkerStepKeeps ==
    ASSUME TypeOK, ThreadInv, NEW w \in Workers, WorkerStep(w) \/ Clock(w)
    PROVE  ThreadInv'
<1>0. job[w] \in Job /\ job \in [Workers -> Job]
  BY DEF TypeOK, WorkerTypeOK
<1>1. CASE finish_worker(w)
  <2>1. /\ wpc[w] = "done" /\ wpc' = [wpc EXCEPT ![w] = "exited"] /\ worker_active' = FALSE
        /\ UNCHANGED <<opened, worker_joinable, handle, pc, req, joins, job>>
    BY <1>1 DEF finish_worker, Goto, deviceVars, clientVars
  <2>2. \A v \in Workers : ~Running(v)'
    BY <2>1 DEF ThreadInv, OneSensorUser, Running, RunningLabels, TypeOK, WorkerTypeOK
  <2>3. OneSensorUser'
    BY <2>1, <2>2 DEF OneSensorUser
  <2>4. \A v \in Workers : wpc'[v] = "free" <=> wpc[v] = "free"
    BY <2>1 DEF TypeOK, WorkerTypeOK
  <2>5. JoinOwnership'
    BY <2>1, <2>4 DEF ThreadInv, JoinOwnership, TypeOK, ClientTypeOK
  <2>6. CallProtocol'
    BY <2>1 DEF ThreadInv, CallProtocol
  <2> QED BY <2>3, <2>5, <2>6 DEF ThreadInv
<1>2. CASE ~finish_worker(w)
  <2>1. Running(w)
    BY <1>2 DEF WorkerStep, enroll_worker, authenticate_worker, notify_message,
                Clock, DeadlinePasses, ClockSetBack,
                EnrollLoop, EnrollScan, EnrollFid, EnrollSave, EnrollCommit, EnrollPost,
                AuthenticateLoop, AuthenticateScan, AuthenticateMatch, NotifyGood, At, Running,
                RunningLabels, TypeOK, WorkerTypeOK
  <2>2. UNCHANGED ownerVars
    BY <1>2 DEF WorkerStep, enroll_worker, authenticate_worker, notify_message,
                Clock, DeadlinePasses, ClockSetBack,
                EnrollLoop, EnrollScan, EnrollFid, EnrollSave, EnrollCommit, EnrollPost,
                AuthenticateLoop, AuthenticateScan, AuthenticateMatch, NotifyGood, OnlyWorker,
                ownerVars, deviceVars, threadVars, clientVars
  <2>3. \E l \in RunningLabels : wpc' = [wpc EXCEPT ![w] = l]
    <3>1. job[w].next \in RunningLabels
      BY <1>0 DEF Job, RunningLabels
    <3>2. CASE Clock(w)
      BY <2>1, <3>2 DEF Clock, DeadlinePasses, ClockSetBack, Running, TypeOK, WorkerTypeOK
    <3>3. CASE notify_message(w)
      BY <3>1, <3>3 DEF notify_message
    <3>4. CASE enroll_worker(w)
      BY <3>4 DEF enroll_worker, EnrollLoop, EnrollScan, EnrollFid, EnrollSave, EnrollCommit,
                  EnrollPost, Goto, Send, RunningLabels
    <3>5. CASE authenticate_worker(w)
      BY <3>5 DEF authenticate_worker, AuthenticateLoop, AuthenticateScan, AuthenticateMatch,
                  NotifyGood, Goto, Send, RunningLabels
    <3> QED BY <1>2, <3>2, <3>3, <3>4, <3>5 DEF WorkerStep
  <2>4. \A v \in Workers : job'[v].op = job[v].op
    <3>1. CASE Clock(w)
      BY <3>1, ClockEffect
    <3>2. CASE notify_message(w)
      BY <1>0, <3>2 DEF notify_message, Job
    <3>3. ASSUME NEW m, NEW l, Send(w, m, l) PROVE \A v \in Workers : job'[v].op = job[v].op
      BY <1>0, <3>3 DEF Send, Job
    <3>4. ASSUME NEW l, Goto(w, l) PROVE \A v \in Workers : job'[v].op = job[v].op
      BY <3>4 DEF Goto
    <3>5. CASE enroll_worker(w)
      <4>1. CASE EnrollScan(w)
        <5>1. ASSUME NEW n, NEW m, job' = [job EXCEPT ![w].remaining = n, ![w].next = "loop",
                                                      ![w].msg = m]
              PROVE  \A v \in Workers : job'[v].op = job[v].op
          <6>1. [job[w] EXCEPT !.remaining = n, !.next = "loop", !.msg = m].op = job[w].op
            BY <1>0 DEF Job
          <6> QED BY <1>0, <5>1, <6>1
        <5> QED BY <3>3, <3>4, <4>1, <5>1 DEF EnrollScan
      <4>2. CASE EnrollFid(w)
        BY <1>0, <3>3, <4>2 DEF EnrollFid, Job
      <4>3. CASE EnrollLoop(w) \/ EnrollSave(w) \/ EnrollCommit(w) \/ EnrollPost(w)
        BY <3>3, <3>4, <4>3 DEF EnrollLoop, EnrollSave, EnrollCommit, EnrollPost
      <4> QED BY <3>5, <4>1, <4>2, <4>3 DEF enroll_worker
    <3>6. CASE authenticate_worker(w)
      <4>1. CASE AuthenticateScan(w)
        <5>1. ASSUME NEW i, NEW f, job' = [job EXCEPT ![w].index = i, ![w].fid = f]
              PROVE  \A v \in Workers : job'[v].op = job[v].op
          <6>1. [job[w] EXCEPT !.index = i, !.fid = f].op = job[w].op
            BY <1>0 DEF Job
          <6> QED BY <1>0, <5>1, <6>1
        <5> QED BY <3>3, <3>4, <4>1, <5>1 DEF AuthenticateScan
      <4>2. CASE AuthenticateMatch(w)
        BY <1>0, <4>2 DEF AuthenticateMatch, Job
      <4>3. CASE AuthenticateLoop(w) \/ NotifyGood(w)
        BY <3>4, <4>3 DEF AuthenticateLoop, NotifyGood
      <4> QED BY <3>6, <4>1, <4>2, <4>3 DEF authenticate_worker
    <3> QED BY <1>2, <3>1, <3>2, <3>5, <3>6 DEF WorkerStep
  <2> QED BY <2>1, <2>2, <2>3, <2>4, WorkerKeeps
<1> QED BY <1>1, <1>2

\* A device that was just opened, or lost with its process, has no threads.
LEMMA FreshKeeps ==
    ASSUME TypeOK, ThreadInv, fingerprint_open \/ Crash
    PROVE  ThreadInv'
<1>1. worker_active' = FALSE /\ worker_joinable' = FALSE
  BY DEF fingerprint_open, Crash, FreshMemory
<1>2. /\ \A w \in Workers : wpc'[w] = "free"
      /\ \A c \in Clients : pc'[c] = "idle" /\ req'[c].op = "none" /\ joins'[c] = NoWorker
  <2>1. CASE Crash
    BY <2>1 DEF Crash, NoRequest
  <2>2. CASE fingerprint_open
    BY <2>2, QuietDevice DEF fingerprint_open, ThreadInv, CallProtocol, clientVars, workerVars
  <2> QED BY <2>1, <2>2
<1>3. OneSensorUser'
  BY <1>1, <1>2 DEF OneSensorUser, Running, RunningLabels
<1>4. JoinOwnership'
  BY <1>1, <1>2 DEF JoinOwnership, JoinLabels
<1>5. CallProtocol'
  BY <1>1, <1>2 DEF CallProtocol
<1> QED BY <1>3, <1>4, <1>5 DEF ThreadInv

LEMMA ThreadStep == TypeOK /\ ThreadInv /\ [Next]_vars => ThreadInv'
<1> SUFFICES ASSUME TypeOK, ThreadInv, [Next]_vars PROVE ThreadInv'
  OBVIOUS
<1>1. CASE UNCHANGED vars
  BY <1>1, NothingMoves DEF vars, ownerVars, deviceVars, threadVars, clientVars
<1> QED BY <1>1, ClientKeeps, WorkerStepKeeps, FreshKeeps DEF Next

-----------------------------------------------------------------------------
(* The gallery under a running worker. *)

\* The lines that change the gallery, its directory, the group or the operation
\* id run when no worker does, or are the commit of the running worker itself.
LEMMA GalleryStep ==
    ASSUME TypeOK, ThreadInv, [Next]_vars, NEW w \in Workers, Running(w), opened'
    PROVE  /\ UNCHANGED <<store_path, active_gid, operation_id>>
           /\ templates' # templates => EnrollCommit(w)
<1>1. worker_active /\ \A v \in Workers : Running(v) => v = w
  BY DEF ThreadInv, OneSensorUser
<1>2. opened
  BY <1>1 DEF ThreadInv, CallProtocol
<1>3. CASE \E c \in Clients : ClientStep(c) \/ NewCall(c)
  <2>1. PICK c \in Clients : ClientStep(c) \/ NewCall(c)
    BY <1>3
  <2>2. CASE fingerprint_enroll(c) \/ fingerprint_authenticate(c) \/ fingerprint_remove(c)
             \/ fingerprint_set_active_group(c)
    BY <1>1, <2>2 DEF fingerprint_enroll, fingerprint_authenticate, fingerprint_remove,
                      fingerprint_set_active_group, Busy, GroupBusy, RemoveAllowed, Refuse,
                      groupVars, callVars
  <2>3. CASE ReapJoined(c) \/ StopJoined(c) \/ NotifyCanceled(c) \/ Report(c)
             \/ stop_worker(c) \/ fingerprint_enumerate(c) \/ NewCall(c)
    BY <2>3 DEF ReapJoined, StopJoined, NotifyCanceled, Report, stop_worker,
                fingerprint_enumerate, NewCall, Call, fingerprint_pre_enroll,
                fingerprint_post_enroll, fingerprint_set_notify, Refuse, groupVars, callVars
  <2>4. ~fingerprint_close(c)
    BY DEF fingerprint_close
  <2> QED BY <2>1, <2>2, <2>3, <2>4 DEF ClientStep
<1>4. CASE \E v \in Workers : WorkerStep(v) \/ Clock(v)
  <2>1. PICK v \in Workers : WorkerStep(v) \/ Clock(v)
    BY <1>4
  <2>2. CASE EnrollCommit(v)
    <3>1. v = w
      BY <1>1, <2>2 DEF EnrollCommit, At, Running, RunningLabels
    <3> QED BY <2>2, <3>1 DEF EnrollCommit, callVars
  <2>3. CASE ~EnrollCommit(v)
    BY <2>1, <2>3 DEF WorkerStep, enroll_worker, authenticate_worker, notify_message,
                finish_worker,
                Clock, DeadlinePasses, ClockSetBack, EnrollLoop, EnrollScan, EnrollFid, EnrollSave,
                EnrollPost, AuthenticateLoop, AuthenticateScan, AuthenticateMatch, NotifyGood,
                OnlyWorker, groupVars, callVars
  <2> QED BY <2>2, <2>3
<1>5. ~fingerprint_open /\ ~Crash
  BY <1>2 DEF fingerprint_open, Crash
<1>6. CASE UNCHANGED vars
  BY <1>6 DEF vars, groupVars, callVars
<1> QED BY <1>3, <1>4, <1>5, <1>6 DEF Next

\* A client never moves a worker to a label other than the first one.
LEMMA ClientLeavesWorkers ==
    ASSUME TypeOK, NEW c \in Clients, ClientStep(c) \/ NewCall(c), NEW w \in Workers,
           wpc'[w] \notin {"free", "loop"}
    PROVE  wpc'[w] = wpc[w] /\ job'[w] = job[w]
<1>0. job \in [Workers -> Job] /\ wpc \in [Workers -> {"free", "exited"} \cup RunningLabels]
  BY DEF TypeOK, WorkerTypeOK
<1>1. CASE Join(c)
  BY <1>0, <1>1 DEF Join
<1>2. ASSUME NEW j, start_worker(j) PROVE wpc'[w] = wpc[w] /\ job'[w] = job[w]
  BY <1>0, <1>2 DEF start_worker, workerVars
<1>3. CASE UNCHANGED workerVars
  BY <1>3 DEF workerVars
<1>4. Join(c) \/ (\E j : start_worker(j)) \/ UNCHANGED workerVars
  <2>1. CASE ReapJoined(c) \/ StopJoined(c)
    BY <2>1 DEF ReapJoined, StopJoined
  <2>2. CASE fingerprint_enroll(c)
    BY <2>2 DEF fingerprint_enroll, Refuse
  <2>3. CASE fingerprint_authenticate(c)
    BY <2>3 DEF fingerprint_authenticate, Refuse
  <2>4. CASE NotifyCanceled(c) \/ Report(c) \/ stop_worker(c) \/ fingerprint_enumerate(c)
             \/ fingerprint_remove(c) \/ fingerprint_set_active_group(c) \/ fingerprint_close(c)
             \/ NewCall(c)
    BY <2>4 DEF NotifyCanceled, Report, stop_worker, fingerprint_enumerate, fingerprint_remove,
                fingerprint_set_active_group, fingerprint_close, NewCall, Call,
                fingerprint_pre_enroll, fingerprint_post_enroll, fingerprint_set_notify, Refuse
  <2> QED BY <2>1, <2>2, <2>3, <2>4 DEF ClientStep
<1> QED BY <1>1, <1>2, <1>3, <1>4

\* Only open(), close() and a crash change opened.
LEMMA DeviceStaysOpen ==
    ASSUME [Next]_vars, ~fingerprint_open, ~Crash, \A c \in Clients : ~fingerprint_close(c)
    PROVE  UNCHANGED opened
<1>1. ASSUME NEW c \in Clients, ClientStep(c) \/ NewCall(c) PROVE UNCHANGED opened
  BY <1>1 DEF ClientStep, NewCall, ReapJoined, StopJoined, NotifyCanceled, Report,
      fingerprint_enroll, fingerprint_authenticate, stop_worker, fingerprint_enumerate,
      fingerprint_remove, fingerprint_set_active_group, Call, fingerprint_pre_enroll,
      fingerprint_post_enroll, fingerprint_set_notify, Refuse, deviceVars
<1>2. ASSUME NEW w \in Workers, WorkerStep(w) \/ Clock(w) PROVE UNCHANGED opened
  BY <1>2 DEF WorkerStep, enroll_worker, authenticate_worker, notify_message, finish_worker,
      Clock, DeadlinePasses, ClockSetBack,
      EnrollLoop, EnrollScan, EnrollFid, EnrollSave, EnrollCommit, EnrollPost,
      AuthenticateLoop, AuthenticateScan, AuthenticateMatch, NotifyGood, OnlyWorker, deviceVars
<1>3. CASE UNCHANGED vars
  BY <1>3 DEF vars, deviceVars
<1> QED BY <1>1, <1>2, <1>3 DEF Next

LEMMA MatchStep == TypeOK /\ ThreadInv /\ MatchInBounds /\ [Next]_vars => MatchInBounds'
<1> SUFFICES ASSUME TypeOK, ThreadInv, MatchInBounds, [Next]_vars,
                    NEW w \in Workers, wpc'[w] = "match"
             PROVE  job'[w].index \in DOMAIN templates'
  BY DEF MatchInBounds
<1>0. job \in [Workers -> Job] /\ wpc \in [Workers -> {"free", "exited"} \cup RunningLabels]
  BY DEF TypeOK, WorkerTypeOK
<1>1. CASE AuthenticateScan(w)
  <2>1. PICK i \in DOMAIN templates : job' = [job EXCEPT ![w].index = i, ![w].fid = templates[i]]
    BY <1>0, <1>1 DEF AuthenticateScan, Goto, Send
  <2>2. job'[w].index = i
    BY <1>0, <2>1 DEF Job
  <2> QED BY <1>1, <2>2 DEF AuthenticateScan, OnlyWorker, groupVars
<1>2. CASE ~AuthenticateScan(w)
  <2>1. wpc[w] = "match" /\ job'[w].index = job[w].index
    <3>1. ASSUME NEW c \in Clients, ClientStep(c) \/ NewCall(c)
          PROVE  wpc[w] = "match" /\ job'[w].index = job[w].index
      BY <3>1, ClientLeavesWorkers
    <3>2. ASSUME NEW v \in Workers, WorkerStep(v) \/ Clock(v)
          PROVE  wpc[w] = "match" /\ job'[w].index = job[w].index
      <4>1. CASE Clock(v)
        BY <1>0, <4>1, ClockEffect
      <4>2. CASE WorkerStep(v) /\ v # w
        BY <1>0, <3>2, <4>2 DEF WorkerStep, enroll_worker, authenticate_worker, notify_message,
              finish_worker, EnrollLoop, EnrollScan, EnrollFid, EnrollSave, EnrollCommit,
              EnrollPost, AuthenticateLoop, AuthenticateScan, AuthenticateMatch, NotifyGood,
              Goto, Send
      <4>3. ~WorkerStep(w)
        <5>1. \A l : Goto(w, l) => l = "match"
          BY <1>0 DEF Goto
        <5>2. \A m, l : ~Send(w, m, l)
          BY <1>0 DEF Send
        <5>3. job[w].next # "match"
          BY <1>0 DEF Job
        <5> QED BY <1>0, <1>2, <5>1, <5>2, <5>3
              DEF WorkerStep, enroll_worker, authenticate_worker, notify_message,
              finish_worker, EnrollLoop, EnrollScan, EnrollFid, EnrollSave, EnrollCommit,
              EnrollPost, AuthenticateLoop, AuthenticateMatch, NotifyGood
      <4> QED BY <3>2, <4>1, <4>2, <4>3
    <3>3. ~Crash
      BY DEF Crash
    <3>4. CASE fingerprint_open \/ UNCHANGED vars
      BY <3>4 DEF fingerprint_open, vars, workerVars
    <3> QED BY <3>1, <3>2, <3>3, <3>4 DEF Next
  <2>2. Running(w)
    BY <2>1 DEF Running, RunningLabels
  <2>3. ~fingerprint_open /\ ~Crash /\ opened
    <3>1. opened
      BY <2>2 DEF ThreadInv, CallProtocol, OneSensorUser
    <3> QED BY <3>1 DEF fingerprint_open, Crash
  <2>4. \A c \in Clients : ~fingerprint_close(c)
    BY <2>1, QuietDevice DEF fingerprint_close
  <2>5. opened'
    BY <2>3, <2>4, DeviceStaysOpen
  <2>6. templates' = templates
    BY <2>1, <2>2, <2>5, GalleryStep DEF EnrollCommit, At
  <2> QED BY <2>1, <2>6 DEF MatchInBounds
<1> QED BY <1>1, <1>2

-----------------------------------------------------------------------------
(* The theorems. *)

\* The inductive invariant: types, thread ownership, and the one index that a
\* worker carries across an unlocked read.
Inv == TypeOK /\ ThreadInv /\ MatchInBounds

THEOREM Inductive == Spec => []Inv
<1>1. Init => Inv
  <2>1. Init => MatchInBounds
    BY DEF Init, MatchInBounds
  <2> QED BY <2>1, TypeInit, ThreadInit DEF Inv
<1>2. Inv /\ [Next]_vars => Inv'
  BY TypeStep, ThreadStep, MatchStep DEF Inv
<1> QED BY <1>1, <1>2, PTL DEF Spec

\* Every reachable state of the HAL is typed: no fid, index, id or message
\* leaves its range, whatever the number of clients, groups and templates.
THEOREM TypeCorrect == Spec => []TypeOK
<1>1. Inv => TypeOK
  BY DEF Inv
<1> QED BY <1>1, Inductive, PTL

\* Two workers never use the sensor at once, and worker_active tells the truth
\* about it under the lock (start_worker_locked, finish_worker).
THEOREM SensorExclusion == Spec => []OneSensorUser
<1>1. Inv => OneSensorUser
  BY DEF Inv, ThreadInv
<1> QED BY <1>1, Inductive, PTL

\* Every thread created is joined by exactly one party, however many clients
\* race reap_finished_worker, cancel and close.
THEOREM HandlesOwned == Spec => []JoinOwnership
<1>1. Inv => JoinOwnership
  BY DEF Inv, ThreadInv
<1> QED BY <1>1, Inductive, PTL

\* The unlocked reads of the gallery and of store_path (lines 381, 471, 482)
\* see what the lock-protected checks of enroll() and authenticate() saw.
THEOREM UnlockedReadsSafe == Spec => GalleryStableWhileScanning
<1>1. Inv /\ [Next]_vars =>
        [\A w \in Workers : Running(w) /\ Running(w)' /\ opened' =>
           /\ UNCHANGED <<store_path, active_gid, operation_id>>
           /\ templates' # templates => wpc[w] = "commit"]_vars
  BY GalleryStep DEF Inv, EnrollCommit, At
<1> QED BY <1>1, Inductive, PTL DEF Spec, GalleryStableWhileScanning
=============================================================================
