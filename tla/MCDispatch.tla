----------------------------- MODULE MCDispatch -----------------------------
(***************************************************************************)
(* Small instances for TLC.                                                *)
(***************************************************************************)
EXTENDS Dispatch, TLC

CONSTANTS developer, liaison, principal, scheduler,
          area, batch, survey, failing, zero, start, preempt, tell, ask, reply

\* The Developer's survey, skipped once abandoned, and its failing tests; the
\* scheduler's constraint zero; a principal who writes to the Liaison.
MCTicksRoleOf    == (survey :> developer) @@ (failing :> developer) @@ (zero :> scheduler)
MCTicksBand      == (survey :> 30) @@ (failing :> 10) @@ (zero :> 20)
MCTicksSubjectOf == (survey :> area) @@ (failing :> batch) @@ (zero :> area)
MCTicksFrom      == (tell :> principal)
MCTicksTo        == (tell :> liaison)
MCTicksAbout     == (tell :> {})
\* The batch's id is a pattern that the key of the survey matches, as 'tip' is of
\* one about 'tip_percent'.
MCTicksLike      == {<<batch, survey>>}

\* Two roles that can answer each other for ever, a start that wakes one of them,
\* and the preemption that undoes it.
MCTalkRoleOf    == (start :> developer) @@ (preempt :> scheduler)
MCTalkBand      == (start :> 30) @@ (preempt :> 10)
MCTalkSubjectOf == (start :> batch) @@ (preempt :> batch)
MCTalkFrom      == (ask :> developer) @@ (reply :> liaison)
MCTalkTo        == (ask :> liaison) @@ (reply :> developer)
MCTalkAbout     == (ask :> {}) @@ (reply :> {})
=============================================================================
