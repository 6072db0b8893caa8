----------------------------- MODULE MCGateway -----------------------------
(***************************************************************************)
(* Instances of Gateway for TLC: who writes to the bot.                    *)
(***************************************************************************)
EXTENDS Gateway

\* A stranger between two messages of the owner.
MixedOrigin == <<"owner", "stranger", "owner">>

\* An update without a sender in front of two messages of the owner.
HiddenFirst == <<"nameless", "owner", "owner">>

OneOwner == <<"owner">>
=============================================================================
