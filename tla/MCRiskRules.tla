---------------------------- MODULE MCRiskRules ----------------------------
(* An instance of RiskRules for TLC: two rules for a web server. *)
EXTENDS RiskRules, TLC

CONSTANTS any, apache, none, httpd, sep, i1, i2

MCMentions == (none :> {}) @@ (httpd :> {apache})

\* 2.4, 2.4.0, 2.4p1, 2, 1 after letters, letters alone, and none.
MCVersions == {<<2, sep, 4>>, <<2, sep, 4, sep, 0>>, <<2, sep, 4, sep, 1>>, <<2>>,
               <<sep, 1>>, <<sep>>, <<>>}

On(p, s, b, sev) ==
  [port |-> p, service |-> s, below |-> b, severity |-> sev, enabled |-> TRUE]

\* Plain HTTP, and an old Apache.
MCDefaults == <<On(80, any, <<>>, 2), On(80, apache, <<2, sep, 4, sep, 0>>, 3)>>

\* Two rules for the same ports, one of them off.
MCBodies == {On(80, any, <<2, sep, 4, sep, 1>>, 1),
             [On(80, any, <<2, sep, 4, sep, 1>>, 3) EXCEPT !.enabled = FALSE]}

MCOpen(t, v) ==
  [port |-> 80, open |-> TRUE, service |-> none, product |-> t, version |-> v]

MCHosts ==
  {<<MCOpen(httpd, v)>> : v \in MCVersions}
    \cup {<<MCOpen(none, <<>>), MCOpen(httpd, <<2>>)>>,
          <<MCOpen(httpd, <<2>>), MCOpen(none, <<>>)>>,
          <<[MCOpen(httpd, <<2>>) EXCEPT !.open = FALSE]>>}

MCSymmetry == Permutations({i1, i2})
=============================================================================
