---------------------------- MODULE MCRendererHost ----------------------------
(* The two threads of RendererHost on a small instance for TLC.            *)
EXTENDS RendererHost

\* Several children of which none posts an event of its own, or one that does.  Neither
\* cuts off a step that is fair: a start may always find no program, and a child need not
\* post.
PagesOfOne == host.spawned <= 1 \/ \A k \in Children : child[k].posted = 0
=============================================================================
