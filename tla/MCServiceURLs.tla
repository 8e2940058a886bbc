---- MODULE MCServiceURLs ----
EXTENDS ServiceURLs
MCRegion == {<<"r">>, <<"a", "r">>, <<"b", "a", "r">>}
MCLabel == {"a", "b", "r"}
====
