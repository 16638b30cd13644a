-------------------------------- MODULE Exit --------------------------------
(***************************************************************************)
(* How a run's error becomes its exit status (exit.go).  An error is the   *)
(* set of what errors.Is and errors.As can find in it, so wrapping is the  *)
(* identity and joining two errors is their union.                         *)
(***************************************************************************)

ErrLimit == <<"unpacker", "limit">>
ErrVerification == <<"unpacker", "verification">>
ErrNotFound == <<"oras", "not found">>   \* errdef.ErrNotFound
Unclassified == <<"any", "other">>

\* The HTTP statuses a registry client reports; "5xx" stands for every
\* status ExitCode does not look for.
Status == {"401", "403", "404", "5xx"}
Statuses(client) == {client} \X Status

Atom == {ErrLimit, ErrVerification, ErrNotFound, Unclassified}
        \cup Statuses("oras") \cup Statuses("crane")

NoError == {}

\* crane's error type is looked for first, anywhere in the tree; oras's is
\* consulted only when there is none.
hasStatus(err, codes) ==
    LET client == IF err \cap Statuses("crane") # {} THEN "crane" ELSE "oras"
    IN  \E s \in codes : <<client, s>> \in err

isNotFound(err) == ErrNotFound \in err \/ hasStatus(err, {"404"})

isAuth(err) == hasStatus(err, {"401", "403"})

ExitOK == 0
ExitFailure == 1
ExitNotFound == 2
ExitAuth == 3
ExitVerification == 4
ExitLimit == 5

ExitCode(err) ==
    IF err = NoError THEN ExitOK
    ELSE IF ErrVerification \in err THEN ExitVerification
    ELSE IF ErrLimit \in err THEN ExitLimit
    ELSE IF isNotFound(err) THEN ExitNotFound
    ELSE IF isAuth(err) THEN ExitAuth
    ELSE ExitFailure

=============================================================================
