--------------------------- MODULE KernelOffload ---------------------------
(***************************************************************************)
(* The life of one session in the kernel module, and the uplink packets    *)
(* the kernel and the server share: gateway/kernel_offload.rs, the claim   *)
(* in gateway/packet_ingress.rs, and session_table.c, policy.h and         *)
(* udp_hook.c of the module.                                               *)
(*                                                                         *)
(* The kernel looks at every packet first.  One whose tag it knows is      *)
(* checked, decrypted without the lock, and claimed under the lock in the  *)
(* window of its epoch; every other one goes back to the socket.  The      *)
(* server decrypts it, brings the kernel session up to date and claims the *)
(* counter in the same window.  Bringing it up to date is a sequence of    *)
(* ioctls, any of which can fail: a new session object with the new key, a *)
(* new epoch, the policy that arms it, the tags.  The client's counters    *)
(* never repeat across an inline rekey, so a counter names a packet.       *)
(***************************************************************************)
EXTENDS Naturals, FiniteSets

CONSTANTS Workers,      \* tasks of the server that process packets
          Cpus,         \* processors that run the receive hook
          Counters,     \* packet counters of the client: 0 .. n
          MaxKey,       \* keys, one more than the inline rekeys
          MaxFailures,  \* ioctls that fail
          MaxLayouts,   \* wire layouts, one more than the mask changes
          ReplayBits    \* AIVPN_REPLAY_BITS and TAG_WINDOW_SIZE: 512

VARIABLES wire,       \* packets sent: a packet can arrive any number of times
          client,     \* key and next counter of the client
          queue,      \* packets the kernel left to the server
          sess,       \* Session of the server
          kern,       \* aivpn_kern_session
          listed,     \* kern is in aivpn_session_htable
          hook,       \* packets the receive hook has in decryption
          worker,     \* packets the server has in decryption, tags it has built
          job,        \* what the holder of the session lock is at
          revoke,     \* the sweep's removal of a revoked client's session
          failures,
          delivered   \* history: how often each packet was delivered

vars == <<wire, client, queue, sess, kern, listed, hook, worker, job, revoke, failures, delivered>>

Keys == 1 .. MaxKey

\* A window: the highest counter and those marked among the last ReplayBits.
NoWindow == [hi |-> 0, seen |-> {}]

Fresh(w, c) == c > w.hi \/ (w.hi - c < ReplayBits /\ c \notin w.seen)

Mark(w, c) ==
    LET hi == IF c > w.hi THEN c ELSE w.hi
    IN  [hi |-> hi, seen |-> {s \in w.seen \union {c} : hi - s < ReplayBits}]

Merge(w, other) ==
    LET hi == IF other.hi > w.hi THEN other.hi ELSE w.hi
    IN  [hi |-> hi, seen |-> {s \in w.seen \union other.seen : hi - s < ReplayBits}]

\* kzalloc: no policy, no epoch, no tags.  claimed is a history of the keys of
\* the packets whose counters the window of the current epoch has taken.
NewObject(key) ==
    [key |-> key, armed |-> FALSE, tags |-> 0, tagEpoch |-> 0,
     epoch |-> 0, win |-> NoWindow, prevEpoch |-> 0, prevWin |-> NoWindow,
     claimed |-> {}]

Free == [at |-> "free", w |-> "none", prev |-> FALSE]
Sweeper == "sweeper"
IdleHook == [busy |-> FALSE, key |-> 0, counter |-> 0, epoch |-> 0]
IdleWorker == [at |-> "idle", key |-> 0, counter |-> 0]

HooksIdle == \A c \in Cpus : ~hook[c].busy

Init ==
    /\ wire = {}
    /\ client = [key |-> 1, next |-> 0]
    /\ queue = {}
    /\ sess = [key |-> 1, win |-> NoWindow, prevKey |-> 0, prevSeen |-> {}, layout |-> 1,
               epoch |-> 0, prevEpoch |-> 0, keyTag |-> 0, sig |-> <<0, 0>>,
               faulted |-> FALSE]
    /\ kern = NewObject(0)
    /\ listed = FALSE
    /\ hook = [c \in Cpus |-> IdleHook]
    /\ worker = [w \in Workers |-> IdleWorker]
    /\ job = Free
    /\ revoke = "no"
    /\ failures = 0
    /\ delivered = [c \in Counters |-> 0]

-----------------------------------------------------------------------------
(* The client *)

Send ==
    /\ client.next \in Counters
    /\ wire' = wire \union {[key |-> client.key, counter |-> client.next]}
    /\ client' = [client EXCEPT !.next = @ + 1]
    /\ UNCHANGED <<queue, sess, kern, listed, hook, worker, job, revoke, failures, delivered>>

\* The client moves to the new keys and keeps counting.
SwitchKey ==
    /\ client.key < sess.key
    /\ client' = [client EXCEPT !.key = sess.key]
    /\ UNCHANGED <<wire, queue, sess, kern, listed, hook, worker, job, revoke, failures, delivered>>

-----------------------------------------------------------------------------
(* The kernel *)

\* aivpn_epoch_claim on the window of the current or the previous epoch.
epoch_claim(k, epoch, p) ==
    IF epoch # 0 /\ epoch = k.epoch /\ Fresh(k.win, p.counter)
    THEN [ok |-> TRUE, k |-> [k EXCEPT !.win = Mark(@, p.counter), !.claimed = @ \union {p.key}]]
    ELSE IF k.epoch # 0 /\ epoch # 0 /\ epoch = k.prevEpoch /\ epoch # k.epoch
            /\ Fresh(k.prevWin, p.counter)
    THEN [ok |-> TRUE, k |-> [k EXCEPT !.prevWin = Mark(@, p.counter)]]
    ELSE [ok |-> FALSE, k |-> k]

\* A tag the kernel does not hold: only part of the window is installed.
HookMiss(p) ==
    /\ p \notin queue
    /\ queue' = queue \union {p}
    /\ UNCHANGED <<wire, client, sess, kern, listed, hook, worker, job, revoke, failures, delivered>>

\* aivpn_tag_lookup and aivpn_session_rx_prepare.
rx_prepare(c, p) ==
    /\ ~hook[c].busy
    /\ listed
    /\ kern.tags = p.key
    /\ LET usable == kern.armed /\ kern.tagEpoch # 0 /\ kern.epoch = kern.tagEpoch
           old    == kern.win.hi >= p.counter + ReplayBits
       IN  \/ /\ usable /\ Fresh(kern.win, p.counter)
              /\ hook' = [hook EXCEPT ![c] = [busy |-> TRUE, key |-> p.key,
                                              counter |-> p.counter, epoch |-> kern.tagEpoch]]
              /\ UNCHANGED queue
           \/ /\ ~usable \/ old
              /\ queue' = queue \union {p}
              /\ UNCHANGED hook
           \/ /\ usable /\ ~old /\ ~Fresh(kern.win, p.counter)   \* AIVPN_REPLAY_DUP
              /\ UNCHANGED <<queue, hook>>
    /\ UNCHANGED <<wire, client, revoke, sess, kern, listed, worker, job, failures, delivered>>

\* The packet the hook decrypted, with the verdict of the policy, the addresses
\* and aivpn_session_account: refused or returned to the server before the
\* claim; delivered or dropped for want of quota after it.
rx_finish(c, account) ==
    LET p == [key |-> hook[c].key, counter |-> hook[c].counter]
        claim == epoch_claim(kern, hook[c].epoch, p)
        current == kern.armed /\ kern.epoch = hook[c].epoch
        dup == current /\ kern.win.hi < p.counter + ReplayBits /\ ~Fresh(kern.win, p.counter)
    IN  /\ hook[c].busy
        /\ hook' = [hook EXCEPT ![c] = IdleHook]
        /\ \/ /\ \/ p.key # kern.key                  \* -EBADMSG
                 \/ ~current
                 \/ ~dup /\ ~claim.ok
                 \/ account = "fallback" /\ ~dup
              /\ queue' = queue \union {p}
              /\ UNCHANGED <<kern, delivered>>
           \/ /\ p.key = kern.key /\ (dup \/ account = "refuse")
              /\ UNCHANGED <<queue, kern, delivered>>
           \/ /\ p.key = kern.key /\ current /\ claim.ok /\ account \in {"accept", "drop"}
              /\ kern' = claim.k
              /\ delivered' = [delivered EXCEPT ![p.counter] =
                                  IF account = "accept" THEN @ + 1 ELSE @]
              /\ UNCHANGED queue
        /\ UNCHANGED <<wire, client, revoke, sess, listed, worker, job, failures>>

-----------------------------------------------------------------------------
(* The server: bringing the kernel session up to date *)

Signature == <<sess.key, sess.layout>>
NeedRotate == sess.epoch = 0 \/ sess.keyTag # sess.key

NeedAdd == NeedRotate \/ sess.sig # Signature

Fails == failures < MaxFailures /\ failures' = failures + 1

\* kernel_maintain: a faulted session and one that is up to date are left alone.
MaintainNothing ==
    /\ job.at = "maintain"
    /\ sess.faulted \/ ~NeedAdd
    /\ job' = [job EXCEPT !.at = "ready"]
    /\ UNCHANGED <<wire, client, revoke, queue, sess, kern, listed, hook, worker, failures, delivered>>

\* aivpn_session_insert takes the old object out of the tables ...
session_detach ==
    /\ job.at = "maintain"
    /\ ~sess.faulted /\ NeedAdd
    /\ revoke # "detached"
    /\ listed' = FALSE
    /\ job' = [job EXCEPT !.at = "detached"]
    /\ UNCHANGED <<wire, client, revoke, queue, sess, kern, hook, worker, failures, delivered>>

\* ... waits for the readers that hold it, and carries its window over.
session_insert ==
    /\ job.at = "detached"
    /\ HooksIdle
    /\ kern' = [kern EXCEPT !.key = sess.key, !.armed = FALSE, !.tags = 0, !.tagEpoch = 0]
    /\ listed' = TRUE
    /\ sess' = [sess EXCEPT !.sig = Signature]
    /\ job' = [job EXCEPT !.at = "added"]
    /\ UNCHANGED <<wire, client, revoke, queue, hook, worker, failures, delivered>>

\* The ioctl fails before it touches the old object, or finds the table full
\* when there is no old object.
SessionAddFails ==
    /\ Fails
    /\ \/ /\ job.at = "maintain"
          /\ ~sess.faulted /\ NeedAdd
          /\ UNCHANGED kern
       \/ /\ job.at = "detached"
          /\ kern.key = 0
          /\ UNCHANGED kern
    /\ listed' = IF NeedRotate THEN FALSE ELSE listed
    /\ job' = [job EXCEPT !.at = IF NeedRotate THEN "clear" ELSE "ready"]
    /\ UNCHANGED <<wire, client, revoke, queue, sess, hook, worker, delivered>>

\* AIVPN_IOC_REPLAY_ROTATE: the current window becomes the previous one.
replay_rotate ==
    LET epoch == sess.epoch + 1 IN
    /\ job.at = "added" /\ NeedRotate
    /\ listed
    /\ kern.epoch < epoch
    /\ kern' = [kern EXCEPT !.epoch = epoch, !.win = NoWindow, !.claimed = {},
                            !.prevEpoch = IF kern.epoch # 0 THEN kern.epoch ELSE @,
                            !.prevWin = IF kern.epoch # 0 THEN kern.win ELSE @]
    /\ sess' = [sess EXCEPT !.prevEpoch = sess.epoch, !.epoch = epoch, !.keyTag = sess.key]
    /\ job' = [job EXCEPT !.at = "rotated"]
    /\ UNCHANGED <<wire, client, revoke, queue, listed, hook, worker, failures, delivered>>

\* A policy that has changed is written without a new object.
RefreshPolicy ==
    /\ job.at = "maintain"
    /\ ~sess.faulted /\ ~NeedAdd
    /\ job' = [job EXCEPT !.at = "refresh"]
    /\ UNCHANGED <<wire, client, revoke, queue, sess, kern, listed, hook, worker, failures, delivered>>

\* AIVPN_IOC_SESSION_POLICY arms the session, unless the policy sends its
\* packets to the server or the client has its number of armed sessions.
session_policy ==
    /\ job.at \in {"rotated", "refresh"} \/ (job.at = "added" /\ ~NeedRotate)
    /\ listed
    /\ \E armed \in BOOLEAN : kern' = [kern EXCEPT !.armed = armed]
    /\ job' = [job EXCEPT !.at = IF job.at = "refresh" THEN "ready" ELSE "armed"]
    /\ UNCHANGED <<wire, client, revoke, queue, sess, listed, hook, worker, failures, delivered>>

\* The rotation or the policy fails: the session is taken out of the kernel ...
ApplyPlanFails ==
    /\ Fails \/ (~listed /\ UNCHANGED failures)
    /\ job.at \in {"added", "rotated", "refresh"}
    /\ revoke # "detached"
    /\ listed' = FALSE
    /\ job' = [job EXCEPT !.at = "clear"]
    /\ UNCHANGED <<wire, client, revoke, queue, sess, kern, hook, worker, delivered>>

\* ... and closed until the next handshake (reset_kernel_binding).
reset_kernel_binding ==
    /\ job.at = "clear"
    /\ HooksIdle
    /\ kern' = NewObject(0)
    /\ sess' = [sess EXCEPT !.faulted = TRUE, !.epoch = 0, !.prevEpoch = 0,
                            !.keyTag = 0, !.sig = <<0, 0>>]
    /\ job' = [job EXCEPT !.at = "ready"]
    /\ UNCHANGED <<wire, client, revoke, queue, listed, hook, worker, failures, delivered>>

\* The tags get the epoch the session has when they are installed; a failure is
\* ignored.
update_tags(k, key) == [k EXCEPT !.tags = key, !.tagEpoch = k.epoch]

MaintainTags ==
    /\ job.at = "armed"
    /\ \/ listed /\ kern' = update_tags(kern, sess.key) /\ UNCHANGED failures
       \/ Fails /\ UNCHANGED kern
       \/ ~listed /\ UNCHANGED <<kern, failures>>
    /\ job' = [job EXCEPT !.at = "ready"]
    /\ UNCHANGED <<wire, client, revoke, queue, sess, listed, hook, worker, delivered>>

-----------------------------------------------------------------------------
(* The server: packets *)

\* A worker decrypts a packet with the keys it finds.
Take(w, p) ==
    /\ worker[w].at = "idle"
    /\ p.key \in {sess.key, sess.prevKey}
    /\ queue' = queue \ {p}
    /\ worker' = [worker EXCEPT ![w] = [at |-> "opened", key |-> p.key, counter |-> p.counter]]
    /\ UNCHANGED <<wire, client, revoke, sess, kern, listed, hook, job, failures, delivered>>

\* authenticated_counter_epoch, under the lock the worker keeps until the claim.
authenticated_counter_epoch(w) ==
    LET p == worker[w]
        current == p.key = sess.key /\ Fresh(sess.win, p.counter)
        previous == p.key = sess.prevKey /\ p.key # sess.key /\ p.counter \notin sess.prevSeen
    IN  /\ job = Free
        /\ p.at = "opened"
        /\ \/ /\ current \/ previous
              /\ job' = [at |-> "maintain", w |-> w, prev |-> previous]
              /\ UNCHANGED worker
           \/ /\ ~current /\ ~previous
              /\ worker' = [worker EXCEPT ![w] = IdleWorker]
              /\ UNCHANGED job
        /\ UNCHANGED <<wire, client, revoke, queue, sess, kern, listed, hook, failures, delivered>>

\* Mutant: a session whose kernel window was lost still delivers.
ClaimMutantIgnoresFault(w) ==
    LET p == [key |-> worker[w].key, counter |-> worker[w].counter]
        epoch == IF job.prev THEN sess.prevEpoch ELSE sess.epoch
        claim == epoch_claim(kern, epoch, p)
        deliver == (epoch = 0 \/ (listed /\ claim.ok))
        marked == IF job.prev THEN [sess EXCEPT !.prevSeen = @ \union {p.counter}]
                  ELSE [sess EXCEPT !.win = Mark(@, p.counter)]
    IN  /\ job.at = "ready" /\ job.w = w
        /\ \/ /\ deliver
              /\ kern' = IF epoch = 0 THEN kern ELSE claim.k
              /\ sess' = marked
              /\ delivered' = [delivered EXCEPT ![p.counter] = @ + 1]
              /\ \E at \in {"idle", "tags"} :
                     worker' = [worker EXCEPT ![w] = IF at = "idle" THEN IdleWorker
                                    ELSE [at |-> "tags", key |-> sess.key, counter |-> 0]]
           \/ /\ ~deliver                              \* kernel_note_rejected
              /\ sess' = IF job.prev \/ p.counter <= sess.win.hi THEN marked ELSE sess
              /\ worker' = [worker EXCEPT ![w] = IdleWorker]
              /\ UNCHANGED <<kern, delivered>>
        /\ job' = Free
        /\ UNCHANGED <<wire, client, revoke, queue, listed, hook, failures>>

\* kernel_claim_deliver and the marking that follows it.  The worker may go on
\* to build the tags of a window that has moved.
claim_deliver(w) ==
    LET p == [key |-> worker[w].key, counter |-> worker[w].counter]
        epoch == IF job.prev THEN sess.prevEpoch ELSE sess.epoch
        claim == epoch_claim(kern, epoch, p)
        deliver == ~sess.faulted /\ (epoch = 0 \/ (listed /\ claim.ok))
        marked == IF job.prev THEN [sess EXCEPT !.prevSeen = @ \union {p.counter}]
                  ELSE [sess EXCEPT !.win = Mark(@, p.counter)]
    IN  /\ job.at = "ready" /\ job.w = w
        /\ \/ /\ deliver
              /\ kern' = IF epoch = 0 THEN kern ELSE claim.k
              /\ sess' = marked
              /\ delivered' = [delivered EXCEPT ![p.counter] = @ + 1]
              /\ \E at \in {"idle", "tags"} :
                     worker' = [worker EXCEPT ![w] = IF at = "idle" THEN IdleWorker
                                    ELSE [at |-> "tags", key |-> sess.key, counter |-> 0]]
           \/ /\ ~deliver                              \* kernel_note_rejected
              /\ sess' = IF job.prev \/ p.counter <= sess.win.hi THEN marked ELSE sess
              /\ worker' = [worker EXCEPT ![w] = IdleWorker]
              /\ UNCHANGED <<kern, delivered>>
        /\ job' = Free
        /\ UNCHANGED <<wire, client, revoke, queue, listed, hook, failures>>

\* Tags built under the lock are installed after it is released.
InstallTags(w) ==
    /\ worker[w].at = "tags"
    /\ kern' = IF listed THEN update_tags(kern, worker[w].key) ELSE kern
    /\ worker' = [worker EXCEPT ![w] = IdleWorker]
    /\ UNCHANGED <<wire, client, revoke, queue, sess, listed, hook, job, failures, delivered>>

\* The periodic sweep maintains the session and merges the kernel's window.
Sweep ==
    /\ job = Free
    /\ job' = [Free EXCEPT !.at = "maintain", !.w = Sweeper]
    /\ UNCHANGED <<wire, client, revoke, queue, sess, kern, listed, hook, worker, failures, delivered>>

harvest_kernel_counters ==
    /\ job.at = "ready" /\ job.w = Sweeper
    /\ sess' = IF listed /\ sess.epoch # 0 THEN [sess EXCEPT !.win = Merge(@, kern.win)] ELSE sess
    /\ job' = Free
    /\ UNCHANGED <<wire, client, revoke, queue, kern, listed, hook, worker, failures, delivered>>

\* The sweep removes the session of a revoked client from the kernel after it
\* has released the session lock.
RevokeDetach ==
    /\ revoke = "no"
    /\ job.at \notin {"detached", "clear"}
    /\ listed
    /\ listed' = FALSE
    /\ revoke' = "detached"
    /\ UNCHANGED <<wire, client, queue, sess, kern, hook, worker, job, failures, delivered>>

RevokeFree ==
    /\ revoke = "detached"
    /\ HooksIdle
    /\ kern' = NewObject(0)
    /\ revoke' = "done"
    /\ UNCHANGED <<wire, client, queue, sess, listed, hook, worker, job, failures, delivered>>

\* An inline rekey keeps the old keys for a grace period, with their history.
Rekey ==
    /\ job = Free
    /\ sess.key < MaxKey
    /\ sess' = [sess EXCEPT !.key = @ + 1, !.prevKey = sess.key,
                            !.prevSeen = {c \in Counters : ~Fresh(sess.win, c)}]
    /\ UNCHANGED <<wire, client, queue, kern, listed, hook, worker, job, revoke, failures, delivered>>

GraceEnds ==
    /\ job = Free
    /\ sess.prevKey # 0
    /\ sess' = [sess EXCEPT !.prevKey = 0]
    /\ UNCHANGED <<wire, client, queue, kern, listed, hook, worker, job, revoke, failures, delivered>>

\* A mask change gives the packets another layout.
ChangeLayout ==
    /\ job = Free
    /\ sess.layout < MaxLayouts
    /\ sess' = [sess EXCEPT !.layout = @ + 1]
    /\ UNCHANGED <<wire, client, queue, kern, listed, hook, worker, job, revoke, failures, delivered>>

Next ==
    \/ Send \/ SwitchKey
    \/ \E p \in wire :
           \/ HookMiss(p)
           \/ \E c \in Cpus : rx_prepare(c, p)
    \/ \E c \in Cpus, account \in {"accept", "drop", "fallback", "refuse"} : rx_finish(c, account)
    \/ MaintainNothing \/ session_detach \/ session_insert \/ SessionAddFails
    \/ replay_rotate \/ RefreshPolicy \/ session_policy \/ ApplyPlanFails \/ reset_kernel_binding
    \/ MaintainTags
    \/ \E w \in Workers :
           \/ \E p \in queue : Take(w, p)
           \/ authenticated_counter_epoch(w)
           \/ claim_deliver(w)
           \/ InstallTags(w)
    \/ Sweep \/ harvest_kernel_counters \/ RevokeDetach \/ RevokeFree
    \/ Rekey \/ GraceEnds \/ ChangeLayout

Spec == Init /\ [][Next]_vars
-----------------------------------------------------------------------------
\* A packet is delivered at most once, by the kernel or by the server, whatever
\* duplicates arrive, and across installations, rotations, rekeys and failures.
DeliveredOnce == \A c \in Counters : delivered[c] <= 1

\* kernel_apply_plan: "a new key with an old window is unsafe".  While the
\* kernel may take packets, the window of its epoch holds only counters of the
\* key it decrypts with.
WindowBelongsToKey == listed /\ kern.armed => kern.claimed \subseteq {kern.key}

\* A session whose kernel window was lost delivers nothing more: no local
\* window stands in for it.
FaultedDeliversNothing == [][sess.faulted => UNCHANGED delivered]_vars
=============================================================================
