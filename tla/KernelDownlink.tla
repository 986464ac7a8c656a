--------------------------- MODULE KernelDownlink ---------------------------
(***************************************************************************)
(* Downlink packets that the kernel sends with counters the server         *)
(* reserved for it: make_kernel_downlink of gateway/kernel_offload.rs, its *)
(* callers in gateway/packet_ingress.rs, aivpn_session_downlink_update and *)
(* aivpn_session_dl_reserve of session_table.c.                            *)
(*                                                                         *)
(* The server takes a block of counters under the session lock, computes   *)
(* the tags of the block for the current time window, and installs it      *)
(* after the lock is released, so that the blocks of two workers can reach *)
(* the kernel in either order.  The server itself goes on sending.  The    *)
(* ratchet that ends the handshake starts the counters again; an inline    *)
(* rekey does not.                                                         *)
(***************************************************************************)
EXTENDS Naturals, FiniteSets

CONSTANTS Workers,     \* tasks of the server that process packets
          Block,       \* KERNEL_DOWNLINK_BLOCK: 128
          MaxKey,      \* keys after the ratchet
          MaxCounter,  \* bound on send_counter
          MaxWindow    \* time windows of DEFAULT_WINDOW_MS

ASSUME DownlinkAssumption ==
    Block \in Nat /\ MaxKey \in Nat /\ MaxCounter \in Nat /\ MaxWindow \in Nat

VARIABLES sess,     \* key (0: the handshake's), send_counter, kernel_dl_window
          object,   \* the key of the kernel's session, 0 if there is none
          block,    \* its dl_entries from dl_next on, with their time window
          at,       \* where each worker is in its packet
          built,    \* blocks the workers have built and not yet installed
          now,      \* the time window of the clock
          seen,     \* a packet of the client was processed in this window
          used,     \* history: the (key, counter) pairs of packets sent
          reused    \* history: a pair was used twice

downlinkVars == <<sess, object, block, at, built, now, seen, used, reused>>

NoBlock == [next |-> 0, end |-> 0, window |-> 0]
initial == 0

DownlinkInit ==
    /\ sess = [key |-> initial, send |-> 0, window |-> 0]
    /\ object = 0
    /\ block = NoBlock
    /\ at = [w \in Workers |-> "idle"]
    /\ built = [w \in Workers |-> NoBlock]
    /\ now = 1
    /\ seen = FALSE
    /\ used = {}
    /\ reused = FALSE

Emit(key, counter) ==
    /\ used' = used \union {<<key, counter>>}
    /\ reused' = (reused \/ <<key, counter>> \in used)

\* Mutant: the counters of a block are not taken out of send_counter.
MakeMutantKeepsCounter(s) ==
    /\ s.key # initial
    /\ s.send + Block <= MaxCounter
    /\ sess' = [s EXCEPT !.window = now]

\* make_kernel_downlink, under the session lock: the block and the session
\* that has given it away.  A session still on the handshake's keys has none.
make_kernel_downlink(s) ==
    /\ s.key # initial
    /\ s.send + Block <= MaxCounter
    /\ sess' = [s EXCEPT !.send = @ + Block, !.window = now]

Reserved == [next |-> sess.send, end |-> sess.send + Block, window |-> now]

-----------------------------------------------------------------------------
\* complete_session_ratchet starts the counters again under the new keys.
complete_ratchet ==
    /\ sess.key = initial
    /\ sess' = [sess EXCEPT !.key = 1, !.send = 0]
    /\ UNCHANGED <<object, block, at, built, now, seen, used, reused>>

Rekey ==
    /\ sess.key \in 1 .. MaxKey - 1
    /\ sess' = [sess EXCEPT !.key = @ + 1]
    /\ UNCHANGED <<object, block, at, built, now, seen, used, reused>>

\* The server's own packet.
ServerSends ==
    /\ sess.send < MaxCounter
    /\ Emit(sess.key, sess.send)
    /\ sess' = [sess EXCEPT !.send = @ + 1]
    /\ UNCHANGED <<object, block, at, built, now, seen>>

\* kernel_maintain puts the session with the new keys and its first block into
\* the kernel without releasing the lock.
kernel_maintain ==
    /\ sess.key # initial
    /\ object # sess.key
    /\ object' = sess.key
    /\ make_kernel_downlink(sess)
    /\ block' = Reserved
    /\ UNCHANGED <<at, built, now, seen, used, reused>>

\* A packet of the client that does not move the tag window ...  The session is
\* in the kernel by then, unless it is still on the handshake's keys.
Packet(w) ==
    /\ at[w] = "idle"
    /\ sess.key # initial => object # 0
    /\ at' = [at EXCEPT ![w] = "check"]
    /\ UNCHANGED <<sess, object, block, built, now, seen, used, reused>>

\* ... and one that does: a new block with the new tags.
RefreshTags(w) ==
    /\ at[w] = "idle"
    /\ object # 0
    /\ make_kernel_downlink(sess)
    /\ built' = [built EXCEPT ![w] = Reserved]
    /\ at' = [at EXCEPT ![w] = "refresh"]
    /\ UNCHANGED <<object, block, now, seen, used, reused>>

\* The check at the end of every packet: a new block once the time window of
\* the last one is over.
WindowCheck(w) ==
    /\ at[w] = "check"
    /\ \/ /\ sess.window # 0 /\ sess.window # now
          /\ make_kernel_downlink(sess)
          /\ built' = [built EXCEPT ![w] = Reserved]
          /\ at' = [at EXCEPT ![w] = "rearm"]
          /\ UNCHANGED seen
       \/ /\ sess.window = 0 \/ sess.window = now
          /\ at' = [at EXCEPT ![w] = "idle"]
          /\ seen' = TRUE
          /\ UNCHANGED <<sess, built>>
    /\ UNCHANGED <<object, block, now, used, reused>>

\* AIVPN_IOC_SESSION_DOWNLINK replaces the block; without a session it fails.
Install(w) ==
    /\ at[w] \in {"refresh", "rearm"}
    /\ built' = [built EXCEPT ![w] = NoBlock]
    /\ at' = [at EXCEPT ![w] = IF at[w] = "refresh" THEN "check" ELSE "idle"]
    /\ seen' = (seen \/ at[w] = "rearm")
    /\ block' = IF object # 0 THEN built[w] ELSE block
    /\ UNCHANGED <<sess, object, now, used, reused>>

\* aivpn_session_dl_reserve and the packet it is for.
KernelSends ==
    /\ object # 0
    /\ block.next < block.end
    /\ Emit(object, block.next)
    /\ block' = [block EXCEPT !.next = @ + 1]
    /\ UNCHANGED <<sess, object, at, built, now, seen>>

\* The client sends keepalives more often than windows pass, and no worker is
\* held up between building a block and installing it for a whole window.
Tick ==
    /\ now < MaxWindow
    /\ sess.window = 0 \/ seen
    /\ \A w \in Workers : built[w] # NoBlock => built[w].window = now
    /\ now' = now + 1
    /\ seen' = FALSE
    /\ UNCHANGED <<sess, object, block, at, built, used, reused>>

DownlinkNext ==
    \/ complete_ratchet \/ Rekey \/ ServerSends \/ kernel_maintain \/ KernelSends \/ Tick
    \/ \E w \in Workers : Packet(w) \/ RefreshTags(w) \/ WindowCheck(w) \/ Install(w)

DownlinkSpec == DownlinkInit /\ [][DownlinkNext]_downlinkVars
-----------------------------------------------------------------------------
\* make_kernel_downlink: "no (s2c-key, nonce) pair is ever reused", whoever sends
\* the packet and in whatever order blocks and keys reach the kernel.
NoncesUnique == ~reused

\* packet_ingress.rs: "Keepalives (~8 s) run through this path, so the kernel's
\* tags are never more than one window stale": with no installation under way,
\* the kernel has no packet to send with the tag of a window before the last.
TagsFresh ==
    (\A w \in Workers : built[w] = NoBlock) /\ block.next < block.end
        => now <= block.window + 1
=============================================================================
