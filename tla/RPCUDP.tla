------------------------------- MODULE RPCUDP -------------------------------
(***************************************************************************)
(* The request/response layer over UDP of one node (src/p2p/rpcudp/       *)
(* index.js, RPCProtocol), seen from the caller of rpc(): the msgid it    *)
(* draws, the timer it arms, the datagram it hands to the socket, the     *)
(* transport.send callback that registers the msgid in _outstanding, and  *)
(* the two events that complete the call: _acceptResponse and _timeout.   *)
(*                                                                         *)
(* The remote end is the peer's own RPCProtocol._acceptRequest: it        *)
(* answers a request with a response carrying the same msgid.  The        *)
(* network may lose, duplicate and reorder datagrams: it is a set, a      *)
(* delivery may leave the datagram in it (a duplicate arrives later), and *)
(* a datagram may be dropped.  Message bodies are left out: only the      *)
(* msgid and the direction (byte 0) decide what the code does.            *)
(***************************************************************************)
EXTENDS Naturals, FiniteSets

CONSTANTS
    MsgIds      \* msgids the caller draws, one per rpc() call

\* Promise states of a call: not yet made, awaiting, resolved with
\* [true, data] or with [false, null].
CONSTANTS Unused, Pending, Answered, TimedOut

VARIABLES
    result,         \* msgid -> state of the promise f returned by rpc()
    timers,         \* msgids whose setTimeout(_timeout) has not fired
    sendCallbacks,  \* msgids whose transport.send callback has not run
    outstanding,    \* DOMAIN of this._outstanding
    net,            \* datagrams in flight: [kind |-> "req"|"rsp", id |-> msgid]
    crashed         \* an exception escaped a timer callback: the process exited

vars == <<result, timers, sendCallbacks, outstanding, net, crashed>>

Datagram == [kind : {"req", "rsp"}, id : MsgIds]

TypeOK ==
    /\ result \in [MsgIds -> {Unused, Pending, Answered, TimedOut}]
    /\ timers \subseteq MsgIds
    /\ sendCallbacks \subseteq MsgIds
    /\ outstanding \subseteq MsgIds
    /\ net \subseteq Datagram
    /\ crashed \in BOOLEAN

Init ==
    /\ result = [m \in MsgIds |-> Unused]
    /\ timers = {}
    /\ sendCallbacks = {}
    /\ outstanding = {}
    /\ net = {}
    /\ crashed = FALSE

\* rpc(name, address, ...args): draw a fresh msgid, arm the timeout, hand
\* the request to the socket; registration waits for the send callback.
Rpc(m) ==
    /\ ~crashed
    /\ result[m] = Unused
    /\ result' = [result EXCEPT ![m] = Pending]
    /\ timers' = timers \cup {m}
    /\ sendCallbacks' = sendCallbacks \cup {m}
    /\ net' = net \cup {[kind |-> "req", id |-> m]}
    /\ UNCHANGED <<outstanding, crashed>>

\* The transport.send callback: this._outstanding.set(btos, [f, timeout]).
SendCallback(m) ==
    /\ ~crashed
    /\ m \in sendCallbacks
    /\ sendCallbacks' = sendCallbacks \ {m}
    /\ outstanding' = outstanding \cup {m}
    /\ UNCHANGED <<result, timers, net, crashed>>

\* Mutant of Timeout: the entry is deleted but f is never resolved.
TimeoutNoResolve(m) ==
    /\ ~crashed
    /\ m \in timers
    /\ timers' = timers \ {m}
    /\ IF m \in outstanding
       THEN /\ outstanding' = outstanding \ {m}
            /\ UNCHANGED <<result, crashed>>
       ELSE /\ crashed' = TRUE
            /\ UNCHANGED <<result, outstanding>>
    /\ UNCHANGED <<sendCallbacks, net>>

\* Mutant of Timeout: resolves with a bare `false` instead of [false, null].
TimeoutResolvesBare(m) ==
    /\ ~crashed
    /\ m \in timers
    /\ timers' = timers \ {m}
    /\ IF m \in outstanding
       THEN /\ result' = [result EXCEPT ![m] = FALSE]
            /\ outstanding' = outstanding \ {m}
            /\ UNCHANGED crashed
       ELSE /\ crashed' = TRUE
            /\ UNCHANGED <<result, outstanding>>
    /\ UNCHANGED <<sendCallbacks, net>>

\* _timeout(msgid): `let [ f ] = this._outstanding.get(msgid)` throws a
\* TypeError when the msgid is not registered yet; the exception escapes
\* the timer callback and ends the process.  Otherwise resolve
\* [false, null] and delete the entry.
Timeout(m) ==
    /\ ~crashed
    /\ m \in timers
    /\ timers' = timers \ {m}
    /\ IF m \in outstanding
       THEN /\ result' = [result EXCEPT ![m] = TimedOut]
            /\ outstanding' = outstanding \ {m}
            /\ UNCHANGED crashed
       ELSE /\ crashed' = TRUE
            /\ UNCHANGED <<result, outstanding>>
    /\ UNCHANGED <<sendCallbacks, net>>

\* The peer's _acceptRequest answers with the same msgid (its handler's
\* work is the subject of the protocol model).
RemoteAnswer(d) ==
    /\ d \in net
    /\ d.kind = "req"
    /\ net' = (net \ {d}) \cup {[kind |-> "rsp", id |-> d.id]}
    /\ UNCHANGED <<result, timers, sendCallbacks, outstanding, crashed>>

\* Mutant of AcceptResponse: resolves and clears the timer but never
\* deletes the _outstanding entry.
AcceptResponseKeepsEntry(d) ==
    /\ ~crashed
    /\ d \in net
    /\ d.kind = "rsp"
    /\ \/ net' = net \ {d}
       \/ net' = net
    /\ IF d.id \in outstanding
       THEN /\ timers' = timers \ {d.id}
            /\ result' = [result EXCEPT ![d.id] = Answered]
            /\ UNCHANGED outstanding
       ELSE UNCHANGED <<timers, result, outstanding>>
    /\ UNCHANGED <<sendCallbacks, crashed>>

\* datagram_received -> _solveDatagram -> _acceptResponse: an unknown
\* msgid is logged and dropped; a known one clears the timer, resolves
\* [true, data] and is deleted.  The datagram may stay in the network as
\* a duplicate.
AcceptResponse(d) ==
    /\ ~crashed
    /\ d \in net
    /\ d.kind = "rsp"
    /\ \/ net' = net \ {d}
       \/ net' = net
    /\ IF d.id \in outstanding
       THEN /\ timers' = timers \ {d.id}
            /\ result' = [result EXCEPT ![d.id] = Answered]
            /\ outstanding' = outstanding \ {d.id}
       ELSE UNCHANGED <<timers, result, outstanding>>
    /\ UNCHANGED <<sendCallbacks, crashed>>

\* UDP loses the datagram.
Lose(d) ==
    /\ d \in net
    /\ net' = net \ {d}
    /\ UNCHANGED <<result, timers, sendCallbacks, outstanding, crashed>>

Next ==
    \/ \E m \in MsgIds : Rpc(m) \/ SendCallback(m) \/ Timeout(m)
    \/ \E d \in net : RemoteAnswer(d) \/ AcceptResponse(d) \/ Lose(d)

\* The event loop runs every send callback and every due timer; the
\* network and the peers owe nothing.
Fairness ==
    \A m \in MsgIds : WF_vars(SendCallback(m)) /\ WF_vars(Timeout(m))

Spec == Init /\ [][Next]_vars /\ Fairness

-----------------------------------------------------------------------------
(* Properties *)

\* Spec 8, invariant 4: an entry of _outstanding belongs to a call still
\* awaiting its answer and still has its timer armed, so it is removed
\* exactly once, by the response or by the timeout.
RegisteredEntriesLive ==
    \A m \in outstanding : result[m] = Pending /\ m \in timers

\* Every rpc() promise is eventually resolved, whatever the network does
\* (or the process has died).
CallsComplete ==
    \A m \in MsgIds : result[m] = Pending ~> (result[m] # Pending \/ crashed)

\* Spec 5 and 9: a call is in the pending table before its timer or its
\* response can reach it, so _timeout and _acceptResponse always find the
\* entry of a call still awaited -- although rpc() registers the msgid only
\* in transport.send's callback, after arming the timer and sending.
EntryRegisteredBeforeEvents ==
    [][\A m \in MsgIds :
          /\ result[m] = Pending
          /\ \/ Timeout(m)
             \/ \E d \in net : d.id = m /\ AcceptResponse(d)
          => m \in outstanding]_vars

=============================================================================
