---- MODULE MCConversations ----
EXTENDS Conversations

AllClients == {"claude", "chat", "responses"}
AllUpstreams == AllClients \cup {"gemini", "1minai", "duo"}
None == {}
Few == {"few"}
====
