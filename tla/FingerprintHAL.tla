--------------------------- MODULE FingerprintHAL ---------------------------
(***************************************************************************)
(* The raw-frame fingerprint HAL, fingerprint/FingerprintHAL.c: one device *)
(* with one mutex, one worker thread at a time for enroll/authenticate,    *)
(* the templates and the metadata file of the active group on disk, and    *)
(* the notify callback into the framework.                                 *)
(*                                                                         *)
(* A step is one critical section of device->lock, one return of           *)
(* pthread_join, one call into libfprint or one call of the callback: what *)
(* lies between two of them touches only locals.  The gallery of templates *)
(* and store_path are also read outside the lock by the workers (lines     *)
(* 381, 471, 482); those reads are the steps EnrollSave and                *)
(* AuthenticateScan.                                                       *)
(*                                                                         *)
(* Data: a directory is named by the group it belongs to, a 64-bit random  *)
(* number by a member of AuthIds (authenticator ids) or Challenges; a      *)
(* template is its finger id.  libfprint, the sensor and the file system   *)
(* are external and may fail in the ways Faults lists.                     *)
(***************************************************************************)
EXTENDS Naturals, Sequences, FiniteSets, Functions

CONSTANTS
    Clients,        \* threads that call into the HAL
    Workers,        \* thread ids pthread_create can hand out
    Gids,           \* group ids, 0 among them: calloc() leaves active_gid 0
    MaxTemplates,   \* MAX_TEMPLATES
    Stages,         \* fp_dev_get_nr_enroll_stages()
    OperationIds,   \* operation_id argument of authenticate()
    Users,          \* token->user_id, nonzero
    AuthIds,        \* nonzero values random_u64() returns for authenticator ids
    MaxChallenge,   \* nonzero values random_u64() returns for challenges: 1..MaxChallenge
    Ops,            \* operations the clients use
    Faults,         \* failures the environment may produce
    NoWorker,       \* no thread
    NoPath,         \* store_path[0] == '\0'
    NoMeta          \* there is no metadata file: ENOENT

Operations == {"enroll", "authenticate", "cancel", "enumerate", "remove",
               "set_active_group", "pre_enroll", "post_enroll", "close"}

ASSUME ConstantsAssumption ==
    /\ Gids \subseteq Nat /\ 0 \in Gids
    /\ MaxTemplates \in Nat \ {0}
    /\ Stages \in Nat \ {0}
    /\ OperationIds \subseteq Nat \ {0}
    /\ Users \subseteq Nat \ {0}
    /\ AuthIds \subseteq Nat \ {0}
    /\ MaxChallenge \in Nat \ {0}
    /\ Ops \subseteq Operations
    /\ Faults \subseteq {"random", "disk", "load", "create", "sensor", "path", "crash", "clock"}

Metadata == [user : Users \cup {0}, authenticator : AuthIds \cup {0}]

ASSUME MarkersAssumption ==
    NoWorker \notin Workers /\ NoPath \notin Gids /\ NoMeta \notin Metadata

\* A random id is new: every group's stored id, the one in memory and one more.
ASSUME EnoughAuthIds ==
    /\ IsFiniteSet(Gids) /\ IsFiniteSet(AuthIds)
    /\ Cardinality(AuthIds) >= Cardinality(Gids) + 2

Fid == 1..MaxTemplates

VARIABLES
    opened,           \* fingerprint_open() returned a device, not yet closed
    notify,           \* device.notify # NULL
    worker_active, worker_joinable, cancel_requested, operation,
    handle,           \* device->worker
    active_gid, store_path,
    templates,        \* template_ids[0..template_count-1], 1-based
    lib_path,         \* directory libfprint last discovered (external)
    secure_user_id, authenticator_id,
    challenge, operation_id,
    files,            \* disk: template files of every group's directory
    meta,             \* disk: metadata file of every group's directory
    pc, req, joins, left,   \* a client: where it is, its call, its local variables
    wpc, job,               \* a worker: where it is, its locals and its request
    drawn_for         \* ghost: the gallery every authenticator id was drawn for

threadVars == <<worker_active, worker_joinable, cancel_requested, operation, handle>>
groupVars  == <<active_gid, store_path, templates, lib_path>>
idVars     == <<secure_user_id, authenticator_id, drawn_for>>
callVars   == <<challenge, operation_id>>
diskVars   == <<files, meta>>
clientVars == <<pc, req, joins, left>>
workerVars == <<wpc, job>>
deviceVars == <<opened, notify>>
vars == <<deviceVars, threadVars, groupVars, idVars, callVars, diskVars,
          clientVars, workerVars>>

-----------------------------------------------------------------------------
(* Messages to the framework. *)

ErrorCode == {"HW_UNAVAILABLE", "UNABLE_TO_PROCESS", "TIMEOUT", "NO_SPACE"}
Error(code)    == [type |-> "error", error |-> code]
Acquired       == [type |-> "acquired"]
Enrolling(g, f, n) == [type |-> "enrolling", gid |-> g, fid |-> f, remaining |-> n]
Authenticated(g, f, id, user, auth) ==
    [type |-> "authenticated", gid |-> g, fid |-> f, challenge |-> id,
     user |-> user, authenticator |-> auth]

Message ==
    [type : {"error"}, error : ErrorCode] \cup [type : {"acquired"}]
    \cup [type : {"enrolling"}, gid : Gids, fid : Fid \cup {0}, remaining : 0..Stages]
    \cup [type : {"authenticated"}, gid : Gids, fid : Fid \cup {0},
          challenge : OperationIds \cup {0}, user : Users \cup {0},
          authenticator : AuthIds \cup {0}]

\* A message after which the framework considers the operation over.
Terminal(m) ==
    \/ m.type = "error"
    \/ m.type = "enrolling" /\ m.remaining = 0
    \/ m.type = "authenticated" /\ m.fid # 0

(* Calls.  A token of the wrong version or a relative path is refused before *)
(* any state is touched; a token that is not of type HW_AUTH_PASSWORD is     *)
(* refused together with one for another challenge and counts as one.        *)
Args == [op : Operations \cup {"none"}, gid : Gids, challenge : 0..MaxChallenge,
         user : Users \cup {0}, operation_id : OperationIds \cup {0},
         fid : Fid \cup {0}, too_long : BOOLEAN]

NoRequest == [op |-> "none", gid |-> 0, challenge |-> 0, user |-> 0, operation_id |-> 0,
              fid |-> 0, too_long |-> FALSE]

\* The calls that take more than one step, with the arguments each of them has.
Request ==
    {r \in Args :
        /\ r.op \in Ops \ {"pre_enroll", "post_enroll"}
        /\ r.op \notin {"enroll", "authenticate", "remove", "set_active_group"} => r.gid = 0
        /\ IF r.op = "enroll" THEN r.user # 0 ELSE r.user = 0 /\ r.challenge = 0
        /\ r.op = "authenticate" <=> r.operation_id # 0
        /\ r.op # "remove" => r.fid = 0
        /\ r.too_long => r.op = "set_active_group" /\ "path" \in Faults}

\* The locals of a worker, with the request it serves; expired says that the
\* wall clock now shows its deadline or more.  Ghosts: told, it has handed a
\* terminal message to the callback; setback, the clock was set back between
\* the end of its loop and the test that follows it.
Job == [op : {"none", "enroll", "authenticate"}, gid : Gids,
        operation_id : OperationIds \cup {0}, remaining : 0..Stages,
        fid : Fid \cup {0}, index : 0..MaxTemplates, expired : BOOLEAN,
        msg : Message, next : {"loop", "post", "done"}, told : BOOLEAN, setback : BOOLEAN]

NoJob == [op |-> "none", gid |-> 0, operation_id |-> 0, remaining |-> 0, fid |-> 0,
          index |-> 0, expired |-> FALSE, msg |-> Acquired, next |-> "done",
          told |-> FALSE, setback |-> FALSE]

-----------------------------------------------------------------------------
(* The file system and the random device. *)

Directory(disk, dir) == IF dir = NoPath THEN {} ELSE disk[dir]

\* Mutant: an empty directory returns before free_templates_locked.
LoadKeepsOnEmpty(present) ==
    IF present = {} THEN {templates}
    ELSE {t \in [1..Cardinality(present) -> present] : IsInjective(t)}

\* What load_templates_locked can leave in template_ids: every readable
\* template of the directory in the order of discovery, at most MAX_TEMPLATES.
load_templates(present) ==
    LET upto(n) == {t \in [1..n -> present] : IsInjective(t)}
        all == IF Cardinality(present) < MaxTemplates
               THEN Cardinality(present) ELSE MaxTemplates
    IN  IF "load" \in Faults THEN UNION {upto(n) : n \in 0..all} ELSE upto(all)

\* random_u64() for an authenticator id: a value in use nowhere, 0 on failure.
LiveIds == {authenticator_id} \cup {meta[g].authenticator : g \in {h \in Gids : meta[h] # NoMeta}}
random_u64 ==
    {CHOOSE i \in AuthIds : i \notin LiveIds}
    \cup (IF "random" \in Faults THEN {0} ELSE {})

\* Mutants: the user id is left out; the file is never written.
SaveForgetsUser(dir, user, auth) ==
    meta' = [meta EXCEPT ![dir] = [user |-> 0, authenticator |-> auth]]
SaveSkipped(dir, user, auth) == UNCHANGED meta

\* The temporary file is renamed over the old one only when it is complete.
save_metadata(dir, user, auth) ==
    \/ /\ dir # NoPath
       /\ meta' = [meta EXCEPT ![dir] = [user |-> user, authenticator |-> auth]]
    \/ /\ dir = NoPath \/ "disk" \in Faults
       /\ UNCHANGED meta

\* Mutants: an id once drawn is kept; the empty gallery gets an id as well.
RotateOnlyOnce(gallery, dir, user) ==
    /\ authenticator_id' = IF gallery = <<>> THEN 0
                           ELSE IF authenticator_id # 0 THEN authenticator_id
                           ELSE CHOOSE i \in AuthIds : i \notin LiveIds
    /\ drawn_for' = IF authenticator_id # 0 \/ gallery = <<>> THEN drawn_for
                    ELSE [drawn_for EXCEPT ![authenticator_id'] = Range(gallery)]
    /\ save_metadata(dir, user, authenticator_id')
RotateIgnoresEmpty(gallery, dir, user) ==
    \E id \in random_u64 :
        authenticator_id' = id /\ UNCHANGED drawn_for /\ save_metadata(dir, user, id)

\* rotate_authenticator_locked: a failed draw leaves id 0 and the old file.
rotate_authenticator(gallery, dir, user) ==
    \/ /\ gallery = <<>>
       /\ authenticator_id' = 0 /\ UNCHANGED drawn_for
       /\ save_metadata(dir, user, 0)
    \/ /\ gallery # <<>>
       /\ \E id \in random_u64 :
            /\ authenticator_id' = id
            /\ IF id = 0
               THEN UNCHANGED <<meta, drawn_for>>
               ELSE /\ drawn_for' = [i \in AuthIds |-> IF i = id THEN Range(gallery)
                                        ELSE IF i \in LiveIds THEN drawn_for[i] ELSE {}]
                    /\ save_metadata(dir, user, id)

\* The fid of a free slot, 0 when there is none.
find_free_fid ==
    LET free == Fid \ Range(templates)
    IN  IF free = {} THEN 0 ELSE CHOOSE f \in free : \A g \in free : f <= g

-----------------------------------------------------------------------------
(* Clients: reap_finished_worker opens most calls, so a call starts with it. *)

\* A call returns to the framework.
Return(c) ==
    /\ pc' = [pc EXCEPT ![c] = "idle"]
    /\ req' = [req EXCEPT ![c] = NoRequest]
    /\ joins' = [joins EXCEPT ![c] = NoWorker]
    /\ left' = [left EXCEPT ![c] = {}]

\* The adapter registers its callback before anything else, and closes the
\* device only when no other call is inside the HAL.
MayCall(c, op) ==
    /\ opened /\ notify /\ pc[c] = "idle"
    /\ \A d \in Clients : req[d].op # "close"
    /\ op = "close" => \A d \in Clients : pc[d] = "idle"

\* Mutant: the handle stays joinable.
ReapKeepsJoinable(c) ==
    /\ UNCHANGED worker_joinable
    /\ IF worker_joinable /\ ~worker_active
       THEN joins' = [joins EXCEPT ![c] = handle] /\ pc' = [pc EXCEPT ![c] = "reap"]
       ELSE UNCHANGED joins /\ pc' = [pc EXCEPT ![c] = "body"]

\* The critical section of reap_finished_worker: take over the handle of a
\* worker that has finished and join it outside the lock.
reap_finished_worker(c) ==
    IF worker_joinable /\ ~worker_active
    THEN /\ worker_joinable' = FALSE
         /\ joins' = [joins EXCEPT ![c] = handle]
         /\ pc' = [pc EXCEPT ![c] = "reap"]
    ELSE /\ pc' = [pc EXCEPT ![c] = "body"]
         /\ UNCHANGED <<worker_joinable, joins>>

Call(c) ==
    \E r \in Request :
        /\ MayCall(c, r.op)
        /\ reap_finished_worker(c)
        /\ req' = [req EXCEPT ![c] = r]
        /\ UNCHANGED <<deviceVars, worker_active, cancel_requested, operation, handle,
                       groupVars, idVars, callVars, diskVars, left, workerVars>>

\* Mutant: the thread is detached instead of joined.
Detach(c) == joins' = [joins EXCEPT ![c] = NoWorker] /\ UNCHANGED workerVars

\* pthread_join returns once the thread has exited; its id is free again.
Join(c) ==
    /\ wpc[joins[c]] = "exited"
    /\ wpc' = [wpc EXCEPT ![joins[c]] = "free"]
    /\ job' = [job EXCEPT ![joins[c]] = NoJob]
    /\ joins' = [joins EXCEPT ![c] = NoWorker]

ReapJoined(c) ==
    /\ pc[c] = "reap"
    /\ Join(c)
    /\ pc' = [pc EXCEPT ![c] = "body"]
    /\ UNCHANGED <<deviceVars, threadVars, groupVars, idVars, callVars, diskVars, req, left>>

-----------------------------------------------------------------------------
(* enroll() and authenticate(). *)

\* start_worker_locked: the new thread owns job j from its first step on.
start_worker(j) ==
    /\ cancel_requested' = FALSE
    /\ \/ \E w \in Workers :
            /\ wpc[w] = "free"
            /\ wpc' = [wpc EXCEPT ![w] = "loop"]
            /\ job' = [job EXCEPT ![w] = j]
            /\ handle' = w
            /\ worker_active' = TRUE /\ worker_joinable' = TRUE
            /\ operation' = j.op
       \/ /\ "create" \in Faults \/ \A w \in Workers : wpc[w] # "free"
          /\ worker_active' = FALSE /\ operation' = "idle"
          /\ UNCHANGED <<worker_joinable, handle, workerVars>>

\* Mutant: only the handle is looked at, which a waiting cancel() has taken.
BusyIfJoinable == worker_joinable

Busy == worker_active \/ worker_joinable

Refuse(c) ==
    /\ Return(c)
    /\ UNCHANGED <<deviceVars, threadVars, groupVars, idVars, callVars, diskVars, workerVars>>

\* Mutant: no limit on the number of templates.
EnrollWithoutLimit(r) ==
    store_path # NoPath /\ r.gid = active_gid /\ r.challenge = challenge

EnrollAllowed(r) ==
    /\ store_path # NoPath
    /\ r.gid = active_gid
    /\ r.challenge = challenge
    /\ Len(templates) < MaxTemplates

fingerprint_enroll(c) ==
    /\ pc[c] = "body" /\ req[c].op = "enroll"
    /\ \/ (Busy \/ ~EnrollAllowed(req[c])) /\ Refuse(c)
       \/ /\ ~Busy /\ EnrollAllowed(req[c])
          /\ secure_user_id' = req[c].user
          /\ start_worker([NoJob EXCEPT !.op = "enroll", !.gid = req[c].gid,
                                        !.remaining = Stages])
          /\ Return(c)
          /\ UNCHANGED <<deviceVars, groupVars, authenticator_id, drawn_for, callVars, diskVars>>

AuthenticateAllowed(r) == r.gid = active_gid /\ templates # <<>>

fingerprint_authenticate(c) ==
    /\ pc[c] = "body" /\ req[c].op = "authenticate"
    /\ \/ (Busy \/ ~AuthenticateAllowed(req[c])) /\ Refuse(c)
       \/ /\ ~Busy /\ AuthenticateAllowed(req[c])
          /\ operation_id' = req[c].operation_id
          /\ start_worker([NoJob EXCEPT !.op = "authenticate", !.gid = req[c].gid,
                                        !.operation_id = req[c].operation_id])
          /\ Return(c)
          /\ UNCHANGED <<deviceVars, groupVars, idVars, challenge, diskVars>>

-----------------------------------------------------------------------------
(* stop_worker(), the body of cancel() and close(). *)

\* Mutant: the worker is never told to stop.
CancelForgotten == UNCHANGED cancel_requested

RequestCancel == cancel_requested' = (cancel_requested \/ worker_active)

stop_worker(c) ==
    /\ pc[c] = "body" /\ req[c].op \in {"cancel", "close"}
    /\ \/ /\ worker_joinable
          /\ RequestCancel
          /\ worker_joinable' = FALSE
          /\ joins' = [joins EXCEPT ![c] = handle]
          /\ pc' = [pc EXCEPT ![c] = IF worker_active THEN "stop" ELSE "stop_finished"]
          /\ UNCHANGED <<worker_active, operation, handle, req, left>>
       \/ /\ ~worker_joinable
          /\ IF req[c].op = "close"
             THEN pc' = [pc EXCEPT ![c] = "closing"] /\ UNCHANGED <<req, joins, left>>
             ELSE Return(c)
          /\ UNCHANGED threadVars
    /\ UNCHANGED <<deviceVars, groupVars, idVars, callVars, diskVars, workerVars>>

\* The worker is gone; only a cancel() of a worker that was active reports it.
StopJoined(c) ==
    /\ pc[c] \in {"stop", "stop_finished"}
    /\ Join(c)
    /\ IF req[c].op = "close"
       THEN pc' = [pc EXCEPT ![c] = "closing"] /\ UNCHANGED req
       ELSE IF pc[c] = "stop"
       THEN pc' = [pc EXCEPT ![c] = "canceled"] /\ UNCHANGED req
       ELSE pc' = [pc EXCEPT ![c] = "idle"] /\ req' = [req EXCEPT ![c] = NoRequest]
    /\ UNCHANGED <<deviceVars, threadVars, groupVars, idVars, callVars, diskVars, left>>

\* notify_error(FINGERPRINT_ERROR_CANCELED)
NotifyCanceled(c) == pc[c] = "canceled" /\ Refuse(c)
-----------------------------------------------------------------------------
(* enumerate(), remove() and set_active_group(). *)

\* One callback per finger of the local array, or a single empty one.
Report(c) ==
    /\ pc[c] = "report"
    /\ \/ Cardinality(left[c]) <= 1 /\ Return(c)
       \/ /\ Cardinality(left[c]) > 1
          /\ \E f \in left[c] : left' = [left EXCEPT ![c] = @ \ {f}]
          /\ UNCHANGED <<pc, req, joins>>
    /\ UNCHANGED <<deviceVars, threadVars, groupVars, idVars, callVars, diskVars, workerVars>>

ToReport(c, fids) ==
    /\ pc' = [pc EXCEPT ![c] = "report"]
    /\ left' = [left EXCEPT ![c] = fids]
    /\ UNCHANGED <<req, joins>>

fingerprint_enumerate(c) ==
    /\ pc[c] = "body" /\ req[c].op = "enumerate"
    /\ \/ worker_active /\ Return(c)
       \/ ~worker_active /\ ToReport(c, Range(templates))
    /\ UNCHANGED <<deviceVars, threadVars, groupVars, idVars, callVars, diskVars, workerVars>>

\* fp_print_data_delete of the loaded templates the call names (external).
Deletions(fid) ==
    LET named == {f \in Range(templates) : fid \in {0, f}}
    IN  IF "disk" \in Faults THEN SUBSET named ELSE {named}

WithoutFiles(fids) ==
    IF lib_path = NoPath THEN files ELSE [files EXCEPT ![lib_path] = @ \ fids]

RemoveAllowed(r) == ~worker_active /\ r.gid = active_gid

fingerprint_remove(c) ==
    /\ pc[c] = "body" /\ req[c].op = "remove"
    /\ \/ ~RemoveAllowed(req[c]) /\ Refuse(c)
       \/ /\ RemoveAllowed(req[c])
          /\ \E gone \in Deletions(req[c].fid) :
               /\ files' = WithoutFiles(gone)
               /\ templates' \in load_templates(Directory(WithoutFiles(gone), store_path))
               /\ ToReport(c, gone)
          /\ lib_path' = store_path
          /\ rotate_authenticator(templates', store_path, secure_user_id)
          /\ UNCHANGED <<deviceVars, threadVars, active_gid, store_path, secure_user_id,
                         callVars, workerVars>>

\* A missing metadata file reads as zeros.
Stored(g) == IF meta[g] = NoMeta THEN [user |-> 0, authenticator |-> 0] ELSE meta[g]

\* load_metadata_locked failed: the ids stay cleared, set_active_group fails.
MetadataUnreadable ==
    /\ "load" \in Faults
    /\ secure_user_id' = 0 /\ authenticator_id' = 0
    /\ UNCHANGED <<meta, drawn_for>>

\* Mutant: the handle is looked at instead of the worker.
GroupBusyIfJoinable == worker_joinable

GroupBusy == worker_active

fingerprint_set_active_group(c) ==
    /\ pc[c] = "body" /\ req[c].op = "set_active_group"
    /\ \/ GroupBusy /\ Refuse(c)
       \/ /\ ~GroupBusy /\ req[c].too_long
          /\ store_path' = NoPath
          /\ Return(c)
          /\ UNCHANGED <<deviceVars, threadVars, active_gid, templates, lib_path, idVars,
                         callVars, diskVars, workerVars>>
       \/ /\ ~GroupBusy /\ ~req[c].too_long
          /\ LET g == req[c].gid
                 m == Stored(g)
             IN  /\ active_gid' = g /\ store_path' = g /\ lib_path' = g
                 /\ templates' \in load_templates(files[g])
                 /\ \/ MetadataUnreadable
                    \/ /\ secure_user_id' = m.user
                       /\ \/ /\ templates' = <<>> \/ m.authenticator # 0
                             /\ authenticator_id' = IF templates' = <<>> THEN 0
                                                    ELSE m.authenticator
                             /\ UNCHANGED <<meta, drawn_for>>
                          \/ /\ templates' # <<>> /\ m.authenticator = 0
                             /\ rotate_authenticator(templates', g, m.user)
          /\ Return(c)
          /\ UNCHANGED <<deviceVars, threadVars, callVars, files, workerVars>>

-----------------------------------------------------------------------------
(* Calls of a single critical section, open() and close(). *)

\* random_u64 as a challenge: a value other than the last one, 0 on failure.
fingerprint_pre_enroll(c) ==
    /\ "pre_enroll" \in Ops /\ MayCall(c, "pre_enroll")
    /\ challenge' \in ((1..MaxChallenge) \ {challenge})
                      \cup (IF "random" \in Faults THEN {0} ELSE {})
    /\ UNCHANGED <<deviceVars, threadVars, groupVars, idVars, operation_id, diskVars,
                   clientVars, workerVars>>

fingerprint_post_enroll(c) ==
    /\ "post_enroll" \in Ops /\ MayCall(c, "post_enroll")
    /\ challenge' = 0
    /\ UNCHANGED <<deviceVars, threadVars, groupVars, idVars, operation_id, diskVars,
                   clientVars, workerVars>>

fingerprint_set_notify(c) ==
    /\ opened /\ ~notify /\ pc[c] = "idle"
    /\ notify' = TRUE
    /\ UNCHANGED <<opened, threadVars, groupVars, idVars, callVars, diskVars,
                   clientVars, workerVars>>

\* calloc: the memory of a device that was just opened.
FreshMemory ==
    /\ notify' = FALSE
    /\ worker_active' = FALSE /\ worker_joinable' = FALSE /\ cancel_requested' = FALSE
    /\ operation' = "idle" /\ handle' = NoWorker
    /\ active_gid' = 0 /\ store_path' = NoPath /\ templates' = <<>> /\ lib_path' = NoPath
    /\ secure_user_id' = 0 /\ authenticator_id' = 0
    /\ challenge' = 0 /\ operation_id' = 0

fingerprint_open ==
    /\ ~opened
    /\ opened' = TRUE
    /\ FreshMemory
    /\ UNCHANGED <<drawn_for, diskVars, clientVars, workerVars>>

\* After stop_worker: the templates are freed, then the device itself.
fingerprint_close(c) ==
    /\ pc[c] = "closing"
    /\ opened' = FALSE
    /\ FreshMemory
    /\ Return(c)
    /\ UNCHANGED <<drawn_for, diskVars, workerVars>>

\* The process dies: only the disk survives.  A remove() may die after any
\* part of its deletions, before it saved the new metadata.
Crash ==
    /\ "crash" \in Faults /\ opened
    /\ opened' = FALSE
    /\ FreshMemory
    /\ \/ UNCHANGED files
       \/ \E c \in Clients :
            /\ pc[c] = "body" /\ req[c].op = "remove" /\ RemoveAllowed(req[c])
            /\ \E gone \in SUBSET {f \in Range(templates) : req[c].fid \in {0, f}} :
                 files' = WithoutFiles(gone)
    /\ pc' = [c \in Clients |-> "idle"] /\ req' = [c \in Clients |-> NoRequest]
    /\ joins' = [c \in Clients |-> NoWorker] /\ left' = [c \in Clients |-> {}]
    /\ wpc' = [w \in Workers |-> "free"] /\ job' = [w \in Workers |-> NoJob]
    /\ UNCHANGED <<drawn_for, meta>>
-----------------------------------------------------------------------------
(* The worker threads. *)

Goto(w, label) == wpc' = [wpc EXCEPT ![w] = label] /\ UNCHANGED job

\* The worker is about to call notify_message(m), then goes on at label.
Send(w, m, label) ==
    /\ wpc' = [wpc EXCEPT ![w] = "notify"]
    /\ job' = [job EXCEPT ![w].msg = m, ![w].next = label]

OnlyWorker == UNCHANGED <<deviceVars, threadVars, groupVars, idVars, callVars, diskVars,
                          clientVars>>

At(w, label, op) == wpc[w] = label /\ job[w].op = op

\* notify_message: the callback runs on the worker's thread, outside the lock.
notify_message(w) ==
    /\ wpc[w] = "notify"
    /\ wpc' = [wpc EXCEPT ![w] = job[w].next]
    /\ job' = [job EXCEPT ![w].told = @ \/ (notify /\ Terminal(job[w].msg))]
    /\ OnlyWorker

\* The wall clock reaches deadline: enroll_timeout_sec have passed since the
\* worker started, or somebody set it forward.
DeadlinePasses(w) ==
    /\ job[w].op = "enroll" /\ wpc[w] \notin {"free", "exited"} /\ ~job[w].expired
    /\ job' = [job EXCEPT ![w].expired = TRUE]
    /\ UNCHANGED wpc
    /\ OnlyWorker

\* Somebody sets the wall clock back: time(NULL) is asked once more after the
\* loop (line 410) and may then contradict what it said at line 334.
ClockSetBack(w) ==
    /\ "clock" \in Faults
    /\ job[w].op = "enroll" /\ wpc[w] \notin {"free", "exited"} /\ job[w].expired
    /\ job' = [job EXCEPT ![w].expired = FALSE, ![w].setback = @ \/ wpc[w] = "post"]
    /\ UNCHANGED wpc
    /\ OnlyWorker

Clock(w) == DeadlinePasses(w) \/ ClockSetBack(w)

\* Mutant: the deadline is not part of the loop condition.
EnrollLoopNoDeadline(w) ==
    /\ At(w, "loop", "enroll")
    /\ Goto(w, IF cancel_requested THEN "done" ELSE "scan")
    /\ OnlyWorker

\* The condition of the while loop of enroll_worker.
EnrollLoop(w) ==
    /\ At(w, "loop", "enroll")
    /\ Goto(w, IF cancel_requested THEN "done" ELSE IF job[w].expired THEN "post" ELSE "scan")
    /\ OnlyWorker

\* Mutant: the last sample is counted down as well.
RemainingToZero(n) == IF n > 0 THEN n - 1 ELSE n

\* The sensor may report more passes than stages: the count stays at one.
RemainingAfterPass(n) == IF n > 1 THEN n - 1 ELSE n

\* fp_enroll_finger returns and its status is handled, unless a cancel came.
EnrollScan(w) ==
    /\ At(w, "scan", "enroll")
    /\ \/ cancel_requested /\ Goto(w, "done")
       \/ /\ ~cancel_requested
          /\ \/ Send(w, Error("HW_UNAVAILABLE"), "post")
             \/ Send(w, Acquired, "loop")
             \/ LET n == RemainingAfterPass(job[w].remaining)
                IN  /\ wpc' = [wpc EXCEPT ![w] = "notify"]
                    /\ job' = [job EXCEPT ![w].remaining = n, ![w].next = "loop",
                                          ![w].msg = Enrolling(active_gid, 0, n)]
             \/ Goto(w, "fid")
             \/ Send(w, Error("UNABLE_TO_PROCESS"), "done")
    /\ OnlyWorker

\* FP_ENROLL_COMPLETE: choose the slot of the new template.
EnrollFid(w) ==
    /\ At(w, "fid", "enroll")
    /\ LET fid == find_free_fid
       IN  \/ /\ fid = 0 \/ "sensor" \in Faults
              /\ Send(w, Error("NO_SPACE"), "done")
           \/ /\ fid # 0
              /\ wpc' = [wpc EXCEPT ![w] = "save"]
              /\ job' = [job EXCEPT ![w].fid = fid]
    /\ OnlyWorker

\* fp_print_data_save, outside the lock: store_path is read unprotected.
EnrollSave(w) ==
    /\ At(w, "save", "enroll")
    /\ \/ /\ store_path # NoPath
          /\ files' = [files EXCEPT ![store_path] = @ \cup {job[w].fid}]
          /\ Goto(w, "commit")
       \/ /\ "disk" \in Faults \/ store_path = NoPath
          /\ Send(w, Error("UNABLE_TO_PROCESS"), "done")
          /\ UNCHANGED files
    /\ UNCHANGED <<deviceVars, threadVars, groupVars, idVars, callVars, meta, clientVars>>

\* The new gallery is loaded and the authenticator id rotated under the lock.
EnrollCommit(w) ==
    /\ At(w, "commit", "enroll")
    /\ templates' \in load_templates(Directory(files, store_path))
    /\ lib_path' = store_path
    /\ rotate_authenticator(templates', store_path, secure_user_id)
    /\ Send(w, Enrolling(active_gid, job[w].fid, 0), "done")
    /\ UNCHANGED <<deviceVars, threadVars, active_gid, store_path, secure_user_id, callVars,
                   files, clientVars>>

\* Mutant: the timeout is not reported.
EnrollPostSilent(w) == At(w, "post", "enroll") /\ Goto(w, "done") /\ OnlyWorker

\* After the loop: a deadline that has passed is reported unless cancelled.
EnrollPost(w) ==
    /\ At(w, "post", "enroll")
    /\ IF ~cancel_requested /\ job[w].expired
       THEN Send(w, Error("TIMEOUT"), "done")
       ELSE Goto(w, "done")
    /\ OnlyWorker

AuthenticateLoop(w) ==
    /\ At(w, "loop", "authenticate")
    /\ Goto(w, IF cancel_requested THEN "done" ELSE "scan")
    /\ OnlyWorker

\* fp_identify_finger over device->templates, which the worker reads unlocked.
AuthenticateScan(w) ==
    /\ At(w, "scan", "authenticate")
    /\ \/ cancel_requested /\ Goto(w, "done")
       \/ /\ ~cancel_requested
          /\ \/ Send(w, Error("HW_UNAVAILABLE"), "done")
             \/ /\ "sensor" \in Faults
                /\ Send(w, Error("UNABLE_TO_PROCESS"), "done")
             \/ \E i \in DOMAIN templates :
                  /\ wpc' = [wpc EXCEPT ![w] = "match"]
                  /\ job' = [job EXCEPT ![w].index = i, ![w].fid = templates[i]]
             \/ Send(w, Authenticated(active_gid, 0, 0, 0, 0), "loop")
             \/ Send(w, Acquired, "loop")
    /\ OnlyWorker

\* send_authentication_success: the token is filled in from the device.
AuthenticateMatch(w) ==
    /\ At(w, "match", "authenticate")
    /\ wpc' = [wpc EXCEPT ![w] = "good"]
    /\ job' = [job EXCEPT
          ![w].msg = Authenticated(active_gid, templates[job[w].index], operation_id,
                                   secure_user_id, authenticator_id),
          ![w].next = "done"]
    /\ OnlyWorker

\* FINGERPRINT_ACQUIRED_GOOD goes first.
NotifyGood(w) == wpc[w] = "good" /\ Goto(w, "notify") /\ OnlyWorker

finish_worker(w) ==
    /\ wpc[w] = "done"
    /\ Goto(w, "exited")
    /\ operation' = "idle" /\ worker_active' = FALSE
    /\ UNCHANGED <<deviceVars, worker_joinable, cancel_requested, handle, groupVars, idVars,
                   callVars, diskVars, clientVars>>

-----------------------------------------------------------------------------
enroll_worker(w) ==
    \/ EnrollLoop(w) \/ EnrollScan(w) \/ EnrollFid(w) \/ EnrollSave(w) \/ EnrollCommit(w)
    \/ EnrollPost(w)

authenticate_worker(w) ==
    \/ AuthenticateLoop(w) \/ AuthenticateScan(w) \/ AuthenticateMatch(w) \/ NotifyGood(w)

WorkerStep(w) ==
    \/ enroll_worker(w) \/ authenticate_worker(w) \/ notify_message(w) \/ finish_worker(w)

\* What a client inside a call does next.
ClientStep(c) ==
    \/ ReapJoined(c) \/ StopJoined(c) \/ NotifyCanceled(c) \/ Report(c)
    \/ fingerprint_enroll(c) \/ fingerprint_authenticate(c) \/ stop_worker(c)
    \/ fingerprint_enumerate(c) \/ fingerprint_remove(c)
    \/ fingerprint_set_active_group(c) \/ fingerprint_close(c)

NewCall(c) ==
    \/ Call(c) \/ fingerprint_pre_enroll(c) \/ fingerprint_post_enroll(c)
    \/ fingerprint_set_notify(c)

Init ==
    /\ opened = FALSE /\ notify = FALSE
    /\ worker_active = FALSE /\ worker_joinable = FALSE /\ cancel_requested = FALSE
    /\ operation = "idle" /\ handle = NoWorker
    /\ active_gid = 0 /\ store_path = NoPath /\ templates = <<>> /\ lib_path = NoPath
    /\ secure_user_id = 0 /\ authenticator_id = 0
    /\ challenge = 0 /\ operation_id = 0
    /\ files = [g \in Gids |-> {}] /\ meta = [g \in Gids |-> NoMeta]
    /\ pc = [c \in Clients |-> "idle"] /\ req = [c \in Clients |-> NoRequest]
    /\ joins = [c \in Clients |-> NoWorker] /\ left = [c \in Clients |-> {}]
    /\ wpc = [w \in Workers |-> "free"] /\ job = [w \in Workers |-> NoJob]
    /\ drawn_for = [i \in AuthIds |-> {}]

Next ==
    \/ \E c \in Clients : ClientStep(c) \/ NewCall(c)
    \/ \E w \in Workers : WorkerStep(w) \/ Clock(w)
    \/ fingerprint_open
    \/ Crash

Spec == Init /\ [][Next]_vars

\* A thread that can run does; the sensor calls return; time passes.
Fairness ==
    /\ \A c \in Clients : WF_vars(ClientStep(c))
    /\ \A w \in Workers : WF_vars(WorkerStep(w)) /\ WF_vars(DeadlinePasses(w))

FairSpec == Spec /\ Fairness

-----------------------------------------------------------------------------
(* Properties. *)

RunningLabels == {"loop", "scan", "fid", "save", "commit", "post", "match", "good",
                  "notify", "done"}
Running(w) == wpc[w] \in RunningLabels
JoinLabels == {"reap", "stop", "stop_finished"}

ThreadTypeOK ==
    /\ opened \in BOOLEAN /\ notify \in BOOLEAN
    /\ worker_active \in BOOLEAN /\ worker_joinable \in BOOLEAN
    /\ cancel_requested \in BOOLEAN
    /\ operation \in {"idle", "enroll", "authenticate"}
    /\ handle \in Workers \cup {NoWorker}

GroupTypeOK ==
    /\ active_gid \in Gids /\ store_path \in Gids \cup {NoPath}
    /\ lib_path \in Gids \cup {NoPath}
    /\ templates \in Seq(Fid) /\ Len(templates) <= MaxTemplates
    /\ files \in [Gids -> SUBSET Fid]

IdTypeOK ==
    /\ secure_user_id \in Users \cup {0} /\ authenticator_id \in AuthIds \cup {0}
    /\ challenge \in 0..MaxChallenge /\ operation_id \in OperationIds \cup {0}
    /\ meta \in [Gids -> Metadata \cup {NoMeta}]
    /\ drawn_for \in [AuthIds -> SUBSET Fid]

ClientTypeOK ==
    /\ pc \in [Clients -> {"idle", "body", "canceled", "report", "closing"} \cup JoinLabels]
    /\ req \in [Clients -> Args]
    /\ joins \in [Clients -> Workers \cup {NoWorker}]
    /\ left \in [Clients -> SUBSET Fid]

WorkerTypeOK ==
    /\ wpc \in [Workers -> {"free", "exited"} \cup RunningLabels]
    /\ job \in [Workers -> Job]
    /\ \A w \in Workers : wpc[w] = "save" => job[w].fid # 0

\* Every variable has its type, and a worker writes no template without a fid.
TypeOK == ThreadTypeOK /\ GroupTypeOK /\ IdTypeOK /\ ClientTypeOK /\ WorkerTypeOK

\* worker_active is true exactly while one worker thread uses the sensor; two
\* never do, although a finished worker may still await its join
\* (start_worker_locked, finish_worker).
OneSensorUser ==
    /\ worker_active <=> \E w \in Workers : Running(w)
    /\ \A v, w \in Workers : Running(v) /\ Running(w) => v = w
    /\ \A w \in Workers : Running(w) => job[w].op = operation

\* Every thread that was created and not yet joined has exactly one party that
\* will join it: the device, through worker_joinable and worker, or one client
\* that has moved the handle to its stack (reap_finished_worker, stop_worker).
\* No handle is joined twice, overwritten or leaked.
JoinOwnership ==
    /\ worker_joinable => handle \in Workers /\ wpc[handle] # "free"
    /\ \A c \in Clients :
         /\ pc[c] \in JoinLabels <=> joins[c] # NoWorker
         /\ joins[c] # NoWorker =>
              /\ wpc[joins[c]] # "free"
              /\ ~(worker_joinable /\ handle = joins[c])
    /\ \A c, d \in Clients : joins[c] = joins[d] /\ joins[c] # NoWorker => c = d
    /\ \A w \in Workers : wpc[w] # "free" =>
         \/ worker_joinable /\ handle = w
         \/ \E c \in Clients : joins[c] = w

\* An operation is never silently dropped.  A worker that ended without handing
\* a result or an error to the callback is one that a client told to stop and
\* still waits for: cancel() will report CANCELED, close() reports nothing
\* because the device goes away (line 577).  The only other silent end is an
\* enrolment whose deadline passed and whose wall clock was set back before it
\* was asked again (lines 334 and 410).
NoSilentEnd ==
    \A w \in Workers : wpc[w] = "exited" /\ ~job[w].told =>
        \/ \E c \in Clients : joins[c] = w /\ pc[c] = "stop" /\ req[c].op \in {"cancel", "close"}
        \/ job[w].setback

\* The message a worker is about to deliver belongs to its own request: the
\* group, operation id and matched finger are those of the call that started
\* it, although it reads them from the device after other clients ran
\* (send_authentication_success, enroll_worker).
ResultMatchesRequest ==
    \A w \in Workers : wpc[w] \in {"good", "notify"} =>
        LET m == job[w].msg
        IN  /\ m.type \in {"enrolling", "authenticated"} => m.gid = job[w].gid
            /\ m.type = "authenticated" /\ m.fid # 0 =>
                 m.fid = job[w].fid /\ m.challenge = job[w].operation_id

\* What enroll() checked under the lock still holds when the scan completes: a
\* slot is free, and the slot then chosen is still free, in the directory of
\* the group the call named, when the template is written outside the lock
\* (lines 368-381).  No sample remaining is announced together with a finger
\* and never without, however many passes the sensor reports (lines 357-366):
\* the finger's template is then in that directory.
EnrollSlotSound ==
    \A w \in Workers :
        /\ wpc[w] = "fid" => find_free_fid # 0
        /\ wpc[w] = "save" => job[w].fid \notin Range(templates) /\ store_path = job[w].gid
        /\ wpc[w] = "notify" /\ job[w].msg.type = "enrolling" =>
             /\ job[w].msg.remaining = 0 <=> job[w].msg.fid # 0
             /\ job[w].msg.fid # 0 => job[w].msg.fid \in files[job[w].gid]

\* While a worker runs, only that worker changes what it reads without the
\* lock: the gallery and store_path (lines 381, 471 and 482).
GalleryStableWhileScanning ==
    [][\A w \in Workers : Running(w) /\ Running(w)' /\ opened' =>
         /\ UNCHANGED <<store_path, active_gid, operation_id>>
         /\ templates' # templates => wpc[w] = "commit"]_vars

\* The authenticator id in memory was drawn for the gallery in memory: the
\* framework sees another id whenever the enrolled set has changed.
IdDescribesGallery ==
    authenticator_id # 0 => drawn_for[authenticator_id] = Range(templates)

\* Without templates there is no authenticator id, whatever has failed.
NoTemplatesNoId == templates = <<>> => authenticator_id = 0

\* When CANCELED is reported to the only client, nothing runs any more.
CanceledMeansIdle ==
    \A c \in Clients : pc[c] = "canceled" => ~worker_active /\ ~worker_joinable

\* The token of a match names a user and an authenticator, also after groups
\* were switched or the device was reopened: both come back from the metadata.
TokenNamesUser ==
    \A w \in Workers : wpc[w] = "good" => job[w].msg.user # 0 /\ job[w].msg.authenticator # 0

\* The HAL never matches against a template its directory no longer holds,
\* whatever read, write or crash came between.
GalleryOnDisk == lib_path # NoPath => Range(templates) \subseteq files[lib_path]

\* What the HAL holds is what a restarted one would load: outside an
\* enrolment's save the gallery is that of the directory, and the id the
\* framework reads is the one in the metadata.
MemoryIsDisk ==
    store_path # NoPath =>
        /\ (\A w \in Workers : wpc[w] # "commit") => Range(templates) = files[store_path]
        /\ authenticator_id # 0 =>
              meta[store_path] # NoMeta /\ meta[store_path].authenticator = authenticator_id

\* Every call into the HAL returns, cancel() and close() too, which wait for
\* the worker.
CallReturns == \A c \in Clients : pc[c] # "idle" ~> pc[c] = "idle"

\* An enrolment ends even if no finger ever comes: its deadline passes.
EnrollEnds == \A w \in Workers : At(w, "loop", "enroll") ~> wpc[w] \in {"free", "exited"}
=============================================================================
