------------------------------ MODULE SlimeRouter ------------------------------
(***************************************************************************)
(* The custom router between rollouts and inference engines (router.py):   *)
(* the registry of worker URLs and stable worker keys, reservations by     *)
(* incarnation, and the recovery of requests whose worker goes away.       *)
(*                                                                         *)
(* The router is one asyncio loop: what happens between two awaits is one  *)
(* step.  Engine processes are outside; they register, unregister and die  *)
(* in any order, as sglang_engine.py and health_monitor.py, which run per  *)
(* engine and beside each other, make possible.  A process that runs       *)
(* answers every request sent to it, and only a process that has gone      *)
(* breaks a connection.                                                    *)
(*                                                                         *)
(* A token is the number of the attempt that produced it, from 1 on, or    *)
(* EndToken, the last one of a text.                                       *)
(***************************************************************************)
EXTENDS Naturals, Sequences, FiniteSets

CONSTANTS
    Requests,
    Urls, NoUrl,
    Keys, NoKey,
    Owner,             \* the key under which the engine of a URL registers
    First,             \* URLs registered from the start, one for every key
    Setups,            \* the settings, with the requests that arrive under them
    MaxRegistrations,  \* bound: registrations of a key, the first one included
    ProxyRetries,      \* proxy_max_retries
    CheckpointTokens,  \* generate_recovery_checkpoint_tokens, at least 1 by max(1, ...)
    Coalesce           \* generate_coalesce_chunks, at least 1 by max(1, ...)

\* "none": the request does not arrive
Kinds == {"generate", "nonstream", "proxy", "v1", "none"}

\* resume: not disable_token_level_recovery
\* to_healthy: reroute_failed_requests_to_healthy_workers
\* wait_forever: generate_recovery_wait_seconds <= 0
\* re_register: an engine may register a URL that is still registered
\* attempts: generate_recovery_max_attempts
OptionsSet == [attempts : Nat, resume : BOOLEAN, to_healthy : BOOLEAN,
               wait_forever : BOOLEAN, re_register : BOOLEAN]

ASSUME RequestsAssumption ==
    /\ IsFiniteSet(Requests)
    /\ \A s \in Setups : /\ s.options \in OptionsSet
                        /\ s.requests \in [Requests -> [kind : Kinds, max_new_tokens : Nat]]
ASSUME UrlsAssumption ==
    /\ Owner \in [Urls -> Keys] /\ NoUrl \notin Urls /\ NoKey \notin Keys
    /\ First \subseteq Urls
    /\ \A k \in Keys : \E u \in First : Owner[u] = k
    /\ \A u, v \in First : Owner[u] = Owner[v] => u = v
ASSUME BoundsAssumption ==
    /\ {MaxRegistrations, ProxyRetries} \subseteq Nat
    /\ {CheckpointTokens, Coalesce} \subseteq Nat \ {0}

EndToken == 0

VARIABLES
    options,       \* read from the environment at the start
    up,            \* URLs whose engine process runs
    registered,    \* the keys of worker_request_counts
    count,         \* worker_request_counts
    seq_by_url,    \* worker_registration_seq_by_url, 0 for none
    url_of_key,    \* worker_urls_by_key
    seq_by_key,    \* worker_registration_seq_by_key
    req            \* the requests

registryVars == <<registered, count, seq_by_url, url_of_key, seq_by_key>>
vars == <<options, up, registryVars, req>>

Stages == {"new", "connect", "stream", "reroute", "wait", "answered", "failed"}
Holding == {"connect", "stream", "reroute", "wait"}     \* stages with a reservation

Tokens == Seq(Nat)
Texts == [sent : Tokens,      \* prefix in the payload of this attempt
          got : Tokens,       \* tokens of the last chunk, which has all of the attempt's
          lines : Nat,        \* pending_chunk_count
          taken : Nat,        \* how many of them are aggregated
          out : Tokens,       \* aggregated_output_ids
          saved : Tokens,     \* output_ids of the token checkpoint
          target : Nat]       \* next_checkpoint_token_target
NewText == [sent |-> <<>>, got |-> <<>>, lines |-> 0, taken |-> 0, out |-> <<>>,
            saved |-> <<>>, target |-> CheckpointTokens]

RequestStates ==
    [stage : Stages, kind : Kinds, max_new_tokens : Nat, key : Keys \cup {NoKey}, attempt : Nat,
     url : Urls \cup {NoUrl}, seq : Nat,   \* the reservation
     next : Urls \cup {NoUrl},             \* the URL a reroute was raised with
     after : Nat,                          \* effective_failed_seq of a waiting request
     broken : SUBSET (Urls \X Nat),        \* reservations whose connection broke
     text : Texts]

TypeOK ==
    /\ options \in OptionsSet
    /\ up \subseteq Urls /\ registered \subseteq Urls
    /\ count \in [Urls -> Nat] /\ seq_by_url \in [Urls -> Nat]
    /\ url_of_key \in [Keys -> registered \cup {NoUrl}] /\ seq_by_key \in [Keys -> Nat]
    /\ req \in [Requests -> RequestStates]

Init ==
    /\ up = Urls
    /\ registered = First
    /\ count = [u \in Urls |-> 0]
    /\ seq_by_url = [u \in Urls |-> IF u \in First THEN 1 ELSE 0]
    /\ url_of_key = [k \in Keys |-> CHOOSE u \in First : Owner[u] = k]
    /\ seq_by_key = [k \in Keys |-> 1]
    /\ \E s \in Setups :
         /\ options = s.options
         /\ req = [r \in Requests |->
                  [stage |-> "new", kind |-> s.requests[r].kind,
                   max_new_tokens |-> s.requests[r].max_new_tokens, key |-> NoKey, attempt |-> 0, url |-> NoUrl, seq |-> 0, next |-> NoUrl, after |-> 0,
                   broken |-> {}, text |-> NewText]]

-----------------------------------------------------------------------------
(***************************************************************************)
(* The worker registry.                                                    *)
(***************************************************************************)
\* _select_least_loaded_worker_url; the cursor breaks ties
LeastLoaded(excluded, n) ==
    {u \in registered \ excluded : \A v \in registered \ excluded : n[u] <= n[v]}

\* mutated form: without the comparison of sequence numbers
FinishedAny(q) == IF q.url \in registered THEN [count EXCEPT ![q.url] = @ - 1] ELSE count

\* _finish_url: the counts once the reservation of q is given back, but for a
\* URL that is gone or registered anew
Finished(q) ==
    IF q.url \in registered /\ seq_by_url[q.url] = q.seq
    THEN [count EXCEPT ![q.url] = @ - 1] ELSE count

\* the key is now served elsewhere, or the URL is gone
Elsewhere(k, u) == url_of_key[k] \notin {NoUrl, u} \/ u \notin registered

-----------------------------------------------------------------------------
(***************************************************************************)
(* Tokens.                                                                 *)
(***************************************************************************)
\* the worker has produced its last token
IsOver(q) ==
    \/ Len(q.text.sent) + Len(q.text.got) >= q.max_new_tokens
    \/ q.text.got # <<>> /\ q.text.got[Len(q.text.got)] = EndToken

Multiple(n) == CheckpointTokens * (n \div CheckpointTokens + 1)

\* mutated form: the checkpoint is taken before the chunk
FlushedLate(t) ==
    LET out == t.out \o SubSeq(t.got, t.taken + 1, Len(t.got))
        due == Len(out) >= t.target
    IN  [t EXCEPT !.out = out, !.taken = Len(t.got), !.lines = 0,
                  !.saved = IF due THEN t.out ELSE @,
                  !.target = IF due THEN Multiple(Len(out)) ELSE @]

\* mutated form: the whole chunk is appended
FlushedWhole(t) ==
    LET out == t.out \o t.got
        due == Len(out) >= t.target
    IN  [t EXCEPT !.out = out, !.taken = Len(t.got), !.lines = 0,
                  !.saved = IF due THEN out ELSE @,
                  !.target = IF due THEN Multiple(Len(out)) ELSE @]

\* flush_pending_chunk
Flushed(t) ==
    LET out == t.out \o SubSeq(t.got, t.taken + 1, Len(t.got))
        due == Len(out) >= t.target
    IN  [t EXCEPT !.out = out, !.taken = Len(t.got), !.lines = 0,
                  !.saved = IF due THEN out ELSE @,
                  !.target = IF due THEN Multiple(Len(out)) ELSE @]

\* what a broken stream goes on with: the token checkpoint, or nothing
Rewound(t) ==
    IF options.resume THEN LET f == Flushed(t) IN [f EXCEPT !.out = f.saved] ELSE NewText

\* what a reroute goes on with
Kept(t) == IF options.resume THEN Flushed(t) ELSE NewText

\* _build_generate_recovery_payload: what is kept is sent as a prefix
Resent(t) == [t EXCEPT !.sent = t.out, !.got = <<>>, !.taken = 0, !.lines = 0]

-----------------------------------------------------------------------------
(***************************************************************************)
(* Steps of a request.                                                     *)
(***************************************************************************)
Becomes(r, q, n) ==
    /\ req' = [req EXCEPT ![r] = q]
    /\ count' = n
    /\ UNCHANGED <<options, up, registered, seq_by_url, url_of_key, seq_by_key>>

Ended(q, s) == [q EXCEPT !.stage = s, !.url = NoUrl, !.seq = 0, !.next = NoUrl, !.after = 0]

Fail(r, q) == Becomes(r, Ended(q, "failed"), Finished(q))

\* attempt i of a request starts at u; n are the counts without its former reservation.
\* A nonstream request looks for another URL of its key first and moves on once
\* more; a move at the last attempt ends the loop and keeps the new reservation.
Try(r, q, u, i, t, n) ==
    LET moves == q.kind = "nonstream" /\ Elsewhere(q.key, u)
        v == IF moves THEN url_of_key[q.key] ELSE u
        counted == [n EXCEPT ![v] = @ + 1]
    IN  IF moves /\ i >= options.attempts
        THEN Becomes(r, Ended(q, "failed"), counted)
        ELSE Becomes(r, [q EXCEPT !.stage = "connect", !.attempt = IF moves THEN i + 1 ELSE i,
                                  !.url = v, !.seq = seq_by_url[v], !.next = NoUrl,
                                  !.after = 0, !.text = Resent(t)], counted)

\* _use_url, or "No workers available in the pool"
Arrive(r) ==
    /\ req[r].stage = "new" /\ req[r].kind # "none"
    /\ \/ registered = {} /\ Becomes(r, Ended(req[r], "failed"), count)
       \/ \E u \in LeastLoaded({}, count) :
            Try(r, [req[r] EXCEPT !.key = Owner[u]], u, 0, NewText, count)

\* the check at the top of the streaming loop
Looped(q) ==
    IF Elsewhere(q.key, q.url) THEN [q EXCEPT !.stage = "reroute", !.next = url_of_key[q.key]]
    ELSE [q EXCEPT !.stage = "stream"]

\* the response begins
Connect(r) ==
    /\ req[r].kind = "generate" /\ req[r].stage = "connect" /\ req[r].url \in up
    /\ Becomes(r, Looped(req[r]), count)

\* a chunk with one more token
Line(r) ==
    LET q == req[r]
    IN  /\ q.stage = "stream" /\ q.url \in up /\ ~IsOver(q)
        /\ \E token \in {q.attempt + 1, EndToken} :
             LET t == [q.text EXCEPT !.got = Append(@, token), !.lines = @ + 1]
             IN  Becomes(r, Looped([q EXCEPT !.text = IF t.lines >= Coalesce
                                                      THEN Flushed(t) ELSE t]), count)

\* no chunk within generate_reroute_poll_interval, and the worker was replaced
Poll(r) ==
    /\ req[r].stage = "stream" /\ Elsewhere(req[r].key, req[r].url)
    /\ Becomes(r, Looped(req[r]), count)

\* data: [DONE]
Done(r) ==
    LET q == req[r]
    IN  /\ q.stage = "stream" /\ q.url \in up /\ IsOver(q)
        /\ Becomes(r, Ended([q EXCEPT !.text = Flushed(@)], "answered"), Finished(q))

\* a worker refuses a streaming request: an HTTP error status or an error chunk
Refused(r) ==
    /\ req[r].kind = "generate" /\ req[r].stage \in {"connect", "stream"}
    /\ req[r].url \in up
    /\ Fail(r, req[r])

\* the whole response of the other endpoints
Replied(r) ==
    /\ req[r].kind # "generate" /\ req[r].stage = "connect" /\ req[r].url \in up
    /\ Becomes(r, Ended(req[r], "answered"), Finished(req[r]))

\* mutated form: any registration of the key ends the wait
ResolveAgain(r, q, t) ==
    LET healthy == IF options.to_healthy THEN LeastLoaded({q.url}, count) ELSE {}
    IN  \/ \E u \in healthy : Try(r, q, u, q.attempt + 1, t, Finished(q))
        \/ /\ healthy = {}
           /\ Becomes(r, [q EXCEPT !.stage = "wait", !.next = NoUrl, !.text = t,
                                   !.after = 0], count)

\* _resolve_failed_worker_url, and the start of _wait_for_worker_recovery
Resolve(r, q, t) ==
    LET healthy == IF options.to_healthy THEN LeastLoaded({q.url}, count) ELSE {}
        latest == {seq_by_key[q.key], seq_by_url[q.url]}
    IN  \/ \E u \in healthy : Try(r, q, u, q.attempt + 1, t, Finished(q))
        \/ /\ healthy = {}
           /\ Becomes(r, [q EXCEPT !.stage = "wait", !.next = NoUrl, !.text = t,
                                   !.after = CHOOSE s \in latest : \A n \in latest : n <= s],
                      count)

\* the connection breaks, or a nonstream request gets a server error
Breaks(r) ==
    LET q == [req[r] EXCEPT !.broken = @ \cup {<<req[r].url, req[r].seq>>}]
        excluded == {b[1] : b \in q.broken}
        others == LeastLoaded(excluded, Finished(q))
    IN  /\ q.stage \in {"connect", "stream"}
        /\ q.url \notin up \/ q.kind = "nonstream"
        /\ \/ /\ q.kind \in {"generate", "nonstream"} /\ q.attempt < options.attempts
              /\ Resolve(r, q, Rewound(q.text))
           \/ /\ q.kind = "proxy" /\ q.attempt < ProxyRetries
              /\ \E u \in others : Try(r, q, u, q.attempt + 1, NewText, Finished(q))
           \/ /\ \/ q.kind \in {"generate", "nonstream"} /\ q.attempt >= options.attempts
                 \/ q.kind = "proxy" /\ (q.attempt >= ProxyRetries \/ others = {})
                 \/ q.kind = "v1"
              /\ Fail(r, q)

\* a reroute, once the reader of the old stream is cancelled
Reroute(r) ==
    LET q == req[r]
    IN  /\ q.stage = "reroute"
        /\ \/ q.attempt >= options.attempts /\ Fail(r, q)
           \/ /\ q.attempt < options.attempts /\ q.next = NoUrl
              /\ Resolve(r, q, Kept(q.text))
           \/ /\ q.attempt < options.attempts /\ q.next \in registered
              /\ Try(r, q, q.next, q.attempt + 1, Kept(q.text), Finished(q))
           \/ /\ q.attempt < options.attempts /\ q.next \notin registered \cup {NoUrl}
              /\ Fail(r, q)

HasRecovered(q) == url_of_key[q.key] # NoUrl /\ seq_by_key[q.key] > q.after

Recovered(r) ==
    LET q == req[r]
    IN  /\ q.stage = "wait" /\ HasRecovered(q)
        /\ Try(r, q, url_of_key[q.key], q.attempt + 1, q.text, Finished(q))

\* mutated form: no deadline while the key has a URL
WaitTimesOutUnserved(r) ==
    /\ req[r].stage = "wait" /\ url_of_key[req[r].key] = NoUrl /\ ~options.wait_forever
    /\ Fail(r, req[r])

WaitTimesOut(r) ==
    /\ req[r].stage = "wait" /\ ~HasRecovered(req[r]) /\ ~options.wait_forever
    /\ Fail(r, req[r])

-----------------------------------------------------------------------------
(***************************************************************************)
(* Engines.  The bound MaxRegistrations ends the replacement of engines;   *)
(* while it holds, the last engine of a key may only go if another one can *)
(* still register.                                                         *)
(***************************************************************************)
Expendable(u) == url_of_key[Owner[u]] # u \/ seq_by_key[Owner[u]] < MaxRegistrations

\* add_worker
Register(u) ==
    LET k == Owner[u]
        n == seq_by_key[k] + 1
    IN  /\ u \in up /\ seq_by_key[k] < MaxRegistrations
        /\ u \notin registered \/ options.re_register
        /\ registered' = registered \cup {u}
        /\ count' = IF u \in registered THEN count ELSE [count EXCEPT ![u] = 0]
        /\ url_of_key' = [url_of_key EXCEPT ![k] = u]
        /\ seq_by_key' = [seq_by_key EXCEPT ![k] = n]
        /\ seq_by_url' = [seq_by_url EXCEPT ![u] = n]
        /\ UNCHANGED <<options, up, req>>

\* mutated form: the key still points to the URL
UnregisterKeepsUrl(u) ==
    /\ u \in registered /\ Expendable(u)
    /\ registered' = registered \ {u}
    /\ count' = [count EXCEPT ![u] = 0]
    /\ seq_by_url' = [seq_by_url EXCEPT ![u] = 0]
    /\ UNCHANGED <<options, up, url_of_key, seq_by_key, req>>

\* remove_worker
Unregister(u) ==
    LET k == Owner[u]
    IN  /\ u \in registered /\ Expendable(u)
        /\ registered' = registered \ {u}
        /\ count' = [count EXCEPT ![u] = 0]
        /\ seq_by_url' = [seq_by_url EXCEPT ![u] = 0]
        /\ url_of_key' = [url_of_key EXCEPT ![k] = IF @ = u THEN NoUrl ELSE @]
        /\ UNCHANGED <<options, up, seq_by_key, req>>

Dies(u) ==
    /\ u \in up /\ Expendable(u)
    /\ up' = up \ {u}
    /\ UNCHANGED <<options, registryVars, req>>

\* another process takes the address, once the connections to the old one are broken
Launch(u) ==
    /\ u \notin up /\ (u \notin registered \/ options.re_register)
    /\ \A r \in Requests : req[r].url = u => req[r].stage \notin {"connect", "stream"}
    /\ up' = up \cup {u}
    /\ UNCHANGED <<options, registryVars, req>>

\* a key none serves: the dead engine is removed, another one started and registered
Replace(k) ==
    /\ url_of_key[k] \notin up
    /\ \E u \in Urls : Owner[u] = k /\ (Launch(u) \/ Register(u) \/ (u \notin up /\ Unregister(u)))

-----------------------------------------------------------------------------
Steps(r) ==
    \/ Arrive(r) \/ Connect(r) \/ Line(r) \/ Poll(r) \/ Done(r) \/ Refused(r)
    \/ Replied(r) \/ Breaks(r) \/ Reroute(r) \/ Recovered(r) \/ WaitTimesOut(r)

Engines(u) == Register(u) \/ Unregister(u) \/ Dies(u) \/ Launch(u)

Next == (\E r \in Requests : Steps(r)) \/ (\E u \in Urls : Engines(u))

Spec == Init /\ [][Next]_vars

\* The event loop runs every coroutine that can go on, and a key is given an
\* engine again by the watcher or the health monitor.
Fairness ==
    /\ \A r \in Requests : WF_vars(Steps(r))
    /\ \A k \in Keys : WF_vars(Replace(k))

FairSpec == Spec /\ Fairness

-----------------------------------------------------------------------------
(***************************************************************************)
(* Properties.                                                             *)
(***************************************************************************)
Holders(u) == {r \in Requests : req[r].stage \in Holding /\ req[r].url = u
                                 /\ req[r].seq = seq_by_url[u]}

\* "URL -> Active Request Count (load state)": the count of a registered URL is
\* the number of requests that hold a reservation of its present incarnation.
\* Not so where a nonstream request moves at its last attempt and leaves a
\* reservation behind: with to_healthy, or with a single attempt.
LoadIsActive == \A u \in registered : count[u] = Cardinality(Holders(u))

\* Whatever order registrations, removals, failures and releases come in
\* (_use_url, _reserve_url, _finish_url, add_worker, remove_worker), a worker is
\* never taken for less loaded than it is, and its load is exact but for a
\* nonstream request that moves at its last attempt (with to_healthy, or at its
\* only attempt), and for an engine that registers a URL anew without its
\* removal, where add_worker keeps the count of reservations _finish_url then
\* ignores.
LeavesReservations == options.to_healthy \/ options.attempts = 0 \/ options.re_register

CountsExact ==
    \A u \in registered :
        /\ count[u] >= Cardinality(Holders(u))
        /\ count[u] = Cardinality(Holders(u)) \/ LeavesReservations

\* No token is lost, doubled or out of place across attempts: what the router
\* aggregated is the prefix it sent to the worker followed by the part it took
\* of the worker's tokens, never more in all than the request asked for, and
\* the token checkpoint is a prefix of it (flush_pending_chunk,
\* _build_generate_recovery_payload).
TokenIntegrity ==
    \A r \in Requests : LET q == req[r] t == q.text IN
        /\ q.stage \in {"connect", "stream", "reroute", "answered"} =>
             t.out = t.sent \o SubSeq(t.got, 1, t.taken)
        /\ Len(t.out) <= q.max_new_tokens
        /\ Len(t.saved) <= Len(t.out) /\ t.saved = SubSeq(t.out, 1, Len(t.saved))

\* A break costs less than one checkpoint interval of the aggregated tokens.
LossBounded ==
    options.resume =>
        \A r \in Requests :
            Len(req[r].text.out) - Len(req[r].text.saved) < CheckpointTokens

\* A request is never sent again to an incarnation whose connection it saw
\* break (effective_failed_seq of _wait_for_worker_recovery, excluded_workers of
\* proxy).  Not so with to_healthy, where the key's own URL draws it back.
FailedIncarnationAvoided ==
    ~options.to_healthy =>
        \A r \in Requests :
            req[r].stage = "connect" => <<req[r].url, req[r].seq>> \notin req[r].broken

\* Every request that arrives is answered or fails, where the wait for a
\* replacement is bounded.
EveryRequestEnds ==
    \A r \in Requests :
        ~options.wait_forever /\ req[r].kind # "none" => <>(req[r].stage \in {"answered", "failed"})

\* "waits for a replacement URL ... The new worker prefills the retained prefix
\* and continues generation": a request does not wait for ever once its key is
\* served by a later incarnation than the one it lost.
Replaced(q) == url_of_key[q.key] # NoUrl /\ seq_by_key[q.key] > q.seq
ReplacementTaken ==
    \A r \in Requests :
        (req[r].stage = "wait" /\ Replaced(req[r])) ~> (req[r].stage # "wait")
=============================================================================
