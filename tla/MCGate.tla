------------------------------- MODULE MCGate -------------------------------
(***************************************************************************)
(* An instance of Gate for TLC: a database that has to be ready, and for a *)
(* while, and a password in a Secret or a ConfigMap.                       *)
(***************************************************************************)
EXTENDS Gate

Require(kind, on, minElapsed) ==
  [kind |-> kind, on |-> on, type |-> "Ready", minElapsed |-> minElapsed]

MCSetups ==
  {[groups |-> << [by |-> "All", of |-> <<Require("ready", "db", 0), Require("since", "db", 2)>>],
                  [by |-> "Any", of |-> <<Require("secretKey", "creds", 0),
                                          Require("since", "db", 3)>>] >>,
    strategy |-> B!WithJitter(B!ExponentialBackoff(1, 2, 2, TRUE), 50)],
   [groups |-> << [by |-> "All", of |-> <<Require("condition", "db", 0),
                                          Require("configMap", "creds", 0)>>],
                  [by |-> "Any", of |-> <<Require("configMapKey", "creds", 0),
                                          Require("since", "db", 3)>>] >>,
    strategy |-> B!WithMaxAttempts(B!LinearBackoff(1, 1, 2), 1)],
   [groups |-> << [by |-> "All", of |-> <<Require("exists", "db", 0),
                                          Require("secret", "creds", 0)>>] >>,
    strategy |-> B!NoBackoff]}

MCErrors == {E!APIError("TooManyRequests", 3), E!WrapRetryable(E!APIError("NotFound", 0)),
             E!DependencyError(E!APIError("NotFound", 0)), E!Retryable(E!PlainError),
             E!Terminal(E!PlainError)}

\* Those that have a class of their own, or a delay.
MCOthers == {E!APIError("Conflict", 0), E!WrapPermanent(E!Transient(E!PlainError)),
             E!RetryableAfter(E!PlainError, 2), E!ValidationError}

MCFailures == {<<e>> : e \in MCErrors \cup MCOthers}
                \cup {<<e, f>> : e \in MCErrors, f \in MCErrors}
=============================================================================
