--------------------------- MODULE MCAuthSessions ---------------------------
(* Small instances of AuthSessions, and what the repository's documents    *)
(* and tests say of it.                                                    *)
EXTENDS AuthSessions, TLC

SymWorkers == Permutations(Worker)
SymUsersWorkers == Permutations(Worker) \cup Permutations(User)

(* tasks.md:642-643: if a revoked token is used again, revoke the entire   *)
(* token family of that user.                                              *)
ReuseRevokesFamily ==
  [][\A w \in Worker : AuditReuse(w) => TokensOf(req[w].user) \subseteq revoked']_vars
=============================================================================
