---------------------------- MODULE Credentials -----------------------------
(***************************************************************************)
(* Which login a run has (auth.go) and which one crane finds in a docker   *)
(* config file (keychain.go).  A login is a pair of a user name and a      *)
(* password; whose they are is all that matters here.                      *)
(***************************************************************************)
EXTENDS Naturals, SequencesExt

CONSTANT None

Anonymous == <<None, None>>

\* The second pair is deprecated.
Pairs == << <<"UNPACKER_USERNAME", "UNPACKER_PASSWORD">>, <<"USERNAME", "PASSWORD">> >>

\* What the environment holds for the variables of one pair.
Held(env, pair) == <<env[pair[1]], env[pair[2]]>>
Complete(login) == None \notin ToSet(login)

\* Mutation: each variable falls back on its own.
EnvLogin_Mixed(env) ==
    LET first(i) == IF env[Pairs[1][i]] # None THEN env[Pairs[1][i]] ELSE env[Pairs[2][i]]
    IN  IF Complete(<<first(1), first(2)>>) THEN <<first(1), first(2)>> ELSE Anonymous

\* The first pair of which both variables are set.
EnvLogin(env) ==
    IF Complete(Held(env, Pairs[1])) THEN Held(env, Pairs[1])
    ELSE IF Complete(Held(env, Pairs[2])) THEN Held(env, Pairs[2])
    ELSE Anonymous

\* --public, then --config, then the environment.
Resolve(c) ==
    IF c.public THEN [source |-> "public", login |-> Anonymous]
    ELSE IF c.config # None THEN [source |-> "config", login |-> Anonymous]
    ELSE IF EnvLogin(c.env) # Anonymous THEN [source |-> "basic", login |-> EnvLogin(c.env)]
    ELSE [source |-> "missing", login |-> Anonymous]

\* The entry for the repository, then the one for its registry.
configFileKeychain(file) ==
    LET entries == SelectSeq(<<file.repository, file.registry>>, LAMBDA e : e # Anonymous)
    IN  IF entries = <<>> THEN Anonymous ELSE entries[1]

=============================================================================
