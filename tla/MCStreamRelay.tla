---- MODULE MCStreamRelay ----
EXTENDS StreamRelay

AllRoutes == {"claude", "chat", "responses", "gemini", "1minai"} \X {"claude", "chat", "responses"}
TagTexts == {<<"x">>, <<"x", "<">>, <<"think>", "x">>, <<"x", "<", "/think>", "x">>}
Ids == <<"c1", "c2">>
None == {}
====
