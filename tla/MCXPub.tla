------------------------------- MODULE MCXPub -------------------------------
(* Small topics for XPub: everything, and one prefix; two published topics.  *)
EXTENDS XPub

MCTopics == {<<>>, <<1>>}
MCMsgTopics == {<<1>>, <<2>>}
=============================================================================
