---------------------------- MODULE InstallOrUpdate ----------------------------
(***************************************************************************)
(* installOrUpdate of pkg/liqoctl/install/utils.go: the chart is fetched,  *)
(* its values merged and marshalled; then either the values are dumped to  *)
(* a file, or a goroutine runs helm's InstallOrUpgradeChart and sends its  *)
(* error on the unbuffered channel errCh while the caller's goroutine      *)
(* selects between errCh and the context's cancellation.  errCh is closed  *)
(* by a defer when installOrUpdate returns.                                *)
(*                                                                         *)
(* The two goroutines, the channel (a rendezvous: a send completes only    *)
(* with a receive), the user's cancellation and the end of the process are *)
(* modelled; the chart and the values are abstracted to whether each step  *)
(* fails.                                                                  *)
(***************************************************************************)
EXTENDS Naturals

VARIABLES
    dumpValues,  \* cArgs.DumpValues
    mainPc,      \* the caller's goroutine: getChart, values, marshal, select, returned
    result,      \* what installOrUpdate returned: none, nil, err
    helmPc,      \* the helm goroutine: none, installing, sending, done, panicked
    helmErr,     \* the error InstallOrUpgradeChart returned: ok, err
    closed,      \* errCh has been closed
    ctxDone,     \* ctx has been cancelled
    exited       \* the process has ended, taking every goroutine with it

vars == <<dumpValues, mainPc, result, helmPc, helmErr, closed, ctxDone, exited>>

Init ==
    /\ dumpValues \in BOOLEAN
    /\ mainPc = "getChart"
    /\ result = "none"
    /\ helmPc = "none"
    /\ helmErr = "ok"
    /\ closed = FALSE
    /\ ctxDone = FALSE
    /\ exited = FALSE

-----------------------------------------------------------------------------
\* A step of the caller's goroutine that returns an error.
ReturnErr ==
    /\ mainPc' = "returned"
    /\ result' = "err"

\* Lines 70-74: GetChart, whose error is returned.
GetChart ==
    /\ mainPc = "getChart"
    /\ ~exited
    /\ \/ mainPc' = "values" /\ UNCHANGED result
       \/ ReturnErr
    /\ UNCHANGED <<dumpValues, helmPc, helmErr, closed, ctxDone, exited>>

\* generateValues: the chart's values fused with the common ones, then with
\* the provider's; an error of either FusionMap is returned.
GenerateValues ==
    /\ mainPc = "values"
    /\ ~exited
    /\ \/ mainPc' = "marshal" /\ UNCHANGED result
       \/ ReturnErr
    /\ UNCHANGED <<dumpValues, helmPc, helmErr, closed, ctxDone, exited>>

\* Lines 83-107: yaml.Marshal's error is returned; with DumpValues the
\* values are written to a file and WriteFile's error returned; otherwise
\* errCh is made and the helm goroutine started.  None of this looks at ctx.
Marshal ==
    /\ mainPc = "marshal"
    /\ ~exited
    /\ \/ ReturnErr /\ UNCHANGED helmPc
       \/ /\ dumpValues
          /\ mainPc' = "returned"
          /\ result' \in {"nil", "err"}
          /\ UNCHANGED helmPc
       \/ /\ ~dumpValues
          /\ mainPc' = "select"
          /\ helmPc' = "installing"
          /\ UNCHANGED result
    /\ UNCHANGED <<dumpValues, helmErr, closed, ctxDone, exited>>

\* Line 113: InstallOrUpgradeChart returns, with an error or not (with Wait
\* and a Timeout it returns in bounded time, sooner when ctx is cancelled).
HelmInstall ==
    /\ helmPc = "installing"
    /\ ~exited
    /\ helmPc' = "sending"
    /\ helmErr' \in {"ok", "err"}
    /\ UNCHANGED <<dumpValues, mainPc, result, closed, ctxDone, exited>>

\* Lines 114 and 118-121: the send meets the select's receive; the caller
\* returns the error if there is one, and its deferred close(errCh) runs.
Receive ==
    /\ helmPc = "sending"
    /\ mainPc = "select"
    /\ ~exited
    /\ helmPc' = "done"
    /\ mainPc' = "returned"
    /\ result' = IF helmErr = "err" THEN "err" ELSE "nil"
    /\ closed' = TRUE
    /\ UNCHANGED <<dumpValues, helmErr, ctxDone, exited>>

\* Lines 122-123: ctx is done; the caller returns nil and the deferred
\* close(errCh) runs.  When the send is ready too, Go's select picks either.
CancelReturn ==
    /\ mainPc = "select"
    /\ ctxDone
    /\ ~exited
    /\ mainPc' = "returned"
    /\ result' = "nil"
    /\ closed' = TRUE
    /\ UNCHANGED <<dumpValues, helmPc, helmErr, ctxDone, exited>>

\* Line 114 on a closed errCh: a send on a closed channel panics, and the
\* panic of any goroutine ends the program.
SendOnClosed ==
    /\ helmPc = "sending"
    /\ closed
    /\ ~exited
    /\ helmPc' = "panicked"
    /\ exited' = TRUE
    /\ UNCHANGED <<dumpValues, mainPc, result, helmErr, closed, ctxDone>>

\* The user interrupts liqoctl: ctx is cancelled.
Cancel ==
    /\ ~ctxDone
    /\ ~exited
    /\ ctxDone' = TRUE
    /\ UNCHANGED <<dumpValues, mainPc, result, helmPc, helmErr, closed, exited>>

\* Once installOrUpdate has returned, liqoctl finishes and the process ends.
Exit ==
    /\ mainPc = "returned"
    /\ ~exited
    /\ exited' = TRUE
    /\ UNCHANGED <<dumpValues, mainPc, result, helmPc, helmErr, closed, ctxDone>>

Next ==
    \/ GetChart
    \/ GenerateValues
    \/ Marshal
    \/ HelmInstall
    \/ Receive
    \/ CancelReturn
    \/ SendOnClosed
    \/ Cancel
    \/ Exit

Spec == Init /\ [][Next]_vars

-----------------------------------------------------------------------------
\* The comment at line 109: the select only provides a way to leave the
\* installation on cancellation.  Leaving must not crash liqoctl: the helm
\* goroutine never sends on errCh after the deferred close.
NoSendOnClosed == helmPc # "panicked"
=============================================================================
