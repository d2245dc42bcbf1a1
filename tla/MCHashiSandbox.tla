---------------------------- MODULE MCHashiSandbox ----------------------------
(* Instances of HashiSandbox for TLC.                                        *)
EXTENDS HashiSandbox

OneStore == <<"localStorage">>
TwoStores == <<"localStorage", "SCORM">>

\* Clients are numbered: what uses the first one, then the second.
OneApp == {<<"html5">>}
OneChannel == {<<"custom">>}
AppAndOther == {<<"html5", "custom">>, <<"custom", "html5">>}
=============================================================================
