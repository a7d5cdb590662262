---------------------------- MODULE MCTruncate -----------------------------
\* Truncate on small instances.
EXTENDS Truncate, TLC

CONSTANTS f1, f2, r1

Fids == Permutations(Fid)

\* Everything but clunks and removals sent beside another request; and
\* refusals with truncations and wstats.
Safety == {[limit |-> 0, env |-> EnvEvents \ {"pipelined", "fail"}],
           [limit |-> 0, env |-> {"trunc", "wstat", "clunk", "fail"}]}

\* Truncations and removals with limbo long, wstats, and removal on
\* close without a truncation before it.
Live == {[limit |-> 1, env |-> {"trunc", "remove"}],
         [limit |-> 0, env |-> {"trunc", "wstat"}],
         [limit |-> 1, env |-> {"clunk", "rclose"}]}

Refusals == {[limit |-> 0, env |-> {"trunc", "wstat", "fail"}]}
=============================================================================
