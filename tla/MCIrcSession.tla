---------------------------- MODULE MCIrcSession ----------------------------
(***************************************************************************)
(* An instance of IrcSession for model checking: two clients share, change *)
(* and inherit two nicknames, and reach the limits on channels per server, *)
(* users per channel and channels per user.                                *)
(***************************************************************************)
EXTENDS IrcSession

CONSTANTS ann, bob, c1, c2, c3

\* No nickname and no channel name is special.
Names == Permutations(Nicknames) \cup Permutations(Channels)
=============================================================================
