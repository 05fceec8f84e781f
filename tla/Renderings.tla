------------------------------ MODULE Renderings ------------------------------
(***************************************************************************)
(* What the platform renders: deployment templates, and the configuration     *)
(* of collector groups.  The two share no state.                              *)
(***************************************************************************)
EXTENDS Templates, CollectorSources

\* What is rendered is what it is rendered from: a template with the values of a request, and the
\* configuration of a collector group, whose rules do what was previewed of them.
RenderingsAreSound == RenderingIsSubstitution /\ RenderingIsSound /\ PreviewAgrees
===============================================================================
