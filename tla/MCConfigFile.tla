---------------------------- MODULE MCConfigFile ----------------------------
EXTENDS ConfigFile

\* One section's name is only the beginning of the machine's.
MCLengthOf == [w |-> 1] @@ (":" :> 1) @@ ("me:" :> 3) @@ ("you:" :> 4)
MCCanonicalName == ("me:" :> <<"m">>) @@ ("you:" :> <<"m", "u">>)
MCMyName == <<"m", "e">>
=============================================================================
