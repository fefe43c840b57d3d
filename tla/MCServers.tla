----------------------------- MODULE MCServers -----------------------------
(* The feed server with the user server behind it, and the three servers    *)
(* that call nobody.  Two clients of the chat server are a stream that stays and *)
(* a call beside it.                                                        *)
EXTENDS Servers

CONSTANTS c1, c2

MCDeployments ==
    {[servers |-> {"user", "feed"}, clients |-> {c1}],
     [servers |-> {"chat"}, clients |-> {c1, c2}],
     [servers |-> {"notif"}, clients |-> {c1}],
     [servers |-> {"media"}, clients |-> {c1}]}
=============================================================================
