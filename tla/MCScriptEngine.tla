--------------------------- MODULE MCScriptEngine ---------------------------
(***************************************************************************)
(* Instances of ScriptEngine for TLC.                                      *)
(***************************************************************************)
EXTENDS ScriptEngine

CONSTANT
    MAXCSTACK    \* GAFQI_MAXCSTACK of gafqconf.h (8000 there)

\* The stack slots the engine uses stay within what gafqconf.h allows a C
\* function: "GAFQI_MAXCSTACK limits the number of Gafq stack slots that a C
\* function can use."  LoopExecute leaves a slot behind for every item whose
\* function it does not find.
StackWithinLimit == top <= MAXCSTACK
=============================================================================
