-------------------------- MODULE MCPublicService --------------------------
(* A small instance of PublicService: two requests, two tokens of one       *)
(* client, every configuration.                                             *)
EXTENDS PublicService, TLC

CONSTANTS r1, r2,        \* requests
          full, narrow,  \* a token with the scope asked for, one without
          bank, forged   \* the client of the tokens, and one only a header names

MCIdentity(client, scopes) == [client |-> client, scopes |-> scopes]
MCGrant == (full :> MCIdentity(bank, {"write"})) @@ (narrow :> MCIdentity(bank, {"read"}))

MCCall(token, claim) ==
    [route |-> "phase1", token |-> token, scope |-> "write", claim |-> claim,
     wellFormed |-> TRUE]
MCFull == MCCall(full, MCIdentity(forged, {"write"}))

\* Every refusal: by the route, by the token, by the headers, by the body.
MCCalls ==
    {MCFull,
     MCCall(narrow, MCIdentity(forged, {"read"})),
     MCCall(NoToken, MCIdentity(NoClient, {})),
     [MCFull EXCEPT !.route = "unknown"],
     [MCFull EXCEPT !.route = "open"],
     [MCFull EXCEPT !.wellFormed = FALSE]}

MCConfiguration(environment, mode) == [environment |-> environment, mode |-> mode]
MCConfigurations ==
    {MCConfiguration("production", "header"), MCConfiguration("production", "hydra"),
     MCConfiguration("development", "header"), MCConfiguration("development", "other")}
=============================================================================
