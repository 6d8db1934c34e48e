------------------------------ MODULE MCCookies ------------------------------
EXTENDS Cookies, TLC

MCBrowsers == <<"Chrome", "Brave-Browser">>
MCProfiles == <<"Default", "Profile 1">>

Row(name, value, form, quark) ==
    [name |-> name, value |-> value, form |-> form, quark |-> quark]

\* A login, twice the same name; an older database with a part of another login; and
\* one that has nothing to offer.
Login == [version |-> 24, rows |-> <<Row("__pus", "old", "hashed", TRUE),
                                     Row("__pus", "v1", "hashed", TRUE),
                                     Row("__kp", "v1", "hashed", TRUE),
                                     Row("__kp", "v1", "hashed", FALSE)>>]
Part  == [version |-> 18, rows |-> <<Row("__kp", "v2", "plain", TRUE),
                                     Row("__kp", "garbled", "hashed", TRUE)>>]
Other == [version |-> 24, rows |-> <<Row("__pus", "v1", "plain", TRUE),
                                     Row("__kp", "v1", "hashed", FALSE)>>]
MCDatabases == {Login, Part, Other}

\* A login in the second browser, which a part of another one in the first may hide;
\* and a profile that hides the next one.
MCAtFirst ==
    {[b \in {"Chrome", "Brave-Browser"} |->
        IF b = "Chrome" THEN "Default" :> d @@ "Profile 1" :> e
                        ELSE "Default" :> Login @@ "Profile 1" :> None] :
       <<d, e>> \in {<<Part, None>>, <<Other, Part>>}}

\* A login, or nothing that has the form of cookies.
MCCommandLine == {Empty, [n \in Names |-> "v2"]}
=============================================================================
