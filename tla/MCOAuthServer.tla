--------------------------- MODULE MCOAuthServer ---------------------------
(* One account, one sign-in and two requests at a time, with time and faults;   *)
(* or two sign-ins of two people to two clients, when neither passes or strikes.*)
EXTENDS OAuthServer, TLC

CONSTANTS b1, b2, u1, u2

MCOneAccount == b1 :> u1
MCTwoAccounts == b1 :> u1 @@ b2 :> u2

Uri(scheme, host) == [parses |-> TRUE, scheme |-> scheme, host |-> host]

\* One client that registers, and then the staff add a URI no policy allows.
MCUris == {Uri("https", "app"), Uri("http", "app")}
MCRows == [Clients -> {{}}]
MCEdits == {MCUris}

\* Two clients, each with a redirect URI of its own.
MCTwoUris == {Uri("https", "app"), Uri("http", "localhost")}
MCTwoRows == {rows \in [Clients -> {{uri} : uri \in MCTwoUris}] :
                \A c, d \in Clients : rows[c] = rows[d] => c = d}

Symmetry == Permutations(Requests) \cup Permutations(Codes) \cup Permutations(Refreshes)

SymmetryOfTwo == Symmetry \cup Permutations(SignIns) \cup Permutations(Clients)
=============================================================================
