----------------------------- MODULE MCSlimeRouter -----------------------------
(***************************************************************************)
(* SlimeRouter for TLC: two logical workers, the first with a primary and  *)
(* a shadow URL, the second with one URL.                                  *)
(***************************************************************************)
EXTENDS SlimeRouter, TLC

CONSTANTS k1, k2, u1, u2, u3, r1, r2

Owners == u1 :> k1 @@ u2 :> k1 @@ u3 :> k2

Of(kind, tokens) == [kind |-> kind, max_new_tokens |-> tokens]
Alone(kind, tokens) == r1 :> Of(kind, tokens) @@ r2 :> Of("none", 0)
Two(kinds) == r1 :> Of(kinds[1], 1) @@ r2 :> Of(kinds[2], 1)

Settings(attempts) ==
    [resume |-> [attempts |-> attempts, resume |-> TRUE, to_healthy |-> FALSE,
                 wait_forever |-> FALSE, re_register |-> FALSE],
     afresh |-> [attempts |-> attempts, resume |-> FALSE, to_healthy |-> FALSE,
                 wait_forever |-> FALSE, re_register |-> FALSE],
     healthy |-> [attempts |-> attempts, resume |-> TRUE, to_healthy |-> TRUE,
                  wait_forever |-> FALSE, re_register |-> TRUE],
     default |-> [attempts |-> attempts, resume |-> TRUE, to_healthy |-> FALSE,
                  wait_forever |-> TRUE, re_register |-> FALSE]]

\* of the pairs of endpoints, those whose requests meet in different ways
Pairs == {<<"nonstream", "nonstream">>, <<"nonstream", "proxy">>, <<"proxy", "v1">>}
PairsAtOnce == {<<"generate", "generate">>, <<"generate", "nonstream">>}

\* one request with many tokens and attempts, or two with few
Longest == {<<"resume", "generate">>, <<"resume", "nonstream">>,
            <<"afresh", "generate">>, <<"healthy", "nonstream">>}
Finite ==
    {[options |-> Settings(2)[s[1]], requests |-> Alone(s[2], 4)] : s \in Longest}
    \cup {[options |-> Settings(1).resume, requests |-> Two(p)] : p \in Pairs}
    \cup {[options |-> Settings(1).healthy, requests |-> Two(<<"generate", "nonstream">>)]}
    \cup {[options |-> Settings(0).resume, requests |-> Two(p)] : p \in PairsAtOnce}
Default ==
    {[options |-> Settings(1).default, requests |-> Alone(kind, 2)] : kind \in {"generate", "nonstream"}}
=============================================================================
