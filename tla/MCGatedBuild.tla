---------------------------- MODULE MCGatedBuild ----------------------------
EXTENDS GatedBuild

\* One issue filed by hand, one whose body quotes a marker.
MCOrigins == {<<>>, <<1>>}
\* The text of a finding quotes no marker, or that of a chain's first hop.
MCQuotes == {<<>>, <<0>>}
=============================================================================
