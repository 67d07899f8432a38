----------------------------- MODULE MCSweBench -----------------------------
(***************************************************************************)
(* SweBench for TLC: two arms so that several instances fit, one other     *)
(* process under the same cap.                                             *)
(***************************************************************************)
EXTENDS SweBench

MCArms == << "router", "pciv" >>

\* One with a statement twice, one short of an instance, one torn.
MCProblemFiles ==
  {<< Statement(2, 1), Blank, Statement(1, 1), Statement(1, 2) >>,
   << Statement(1, 1), Statement(3, 1) >>,
   << Statement(1, 1), Statement(2, 1), Bad >>}

\* An adapter's error that contains none of the harness's words, and one that
\* contains two of them.
MCAdapterErrors == {{}, {"timeout", "reject"}}

=============================================================================
