------------------------------- MODULE MCCancel -------------------------------
EXTENDS Cancel, TLC
\* playback_abort of the core, the cancel of a demuxer with that of its stream, made
\* by an opener thread, and one more external file.
CONSTANTS abort, demuxer, stream, extra, core, opener, worker

MCOwner == (abort :> core) @@ (demuxer :> opener) @@ (stream :> opener) @@ (extra :> worker)
MCMasters == (abort :> {}) @@ (demuxer :> {abort}) @@ (stream :> {demuxer})
               @@ (extra :> {abort})
MCUses == (abort :> {"trigger", "reset"}) @@ (demuxer :> {"set_parent", "destroy"})
            @@ (stream :> {"wait", "get_fd", "destroy"})
            @@ (extra :> {"set_parent", "set_cb"})
MCMaxCalls == (core :> 2) @@ (opener :> 2) @@ (worker :> 1)
===============================================================================
