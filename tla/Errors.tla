------------------------------- MODULE Errors -------------------------------
(***************************************************************************)
(* Error classification: src/pkg/streamline/errors.go.  An error is what   *)
(* errors.As meets on its way in, outermost first: classified errors and   *)
(* API statuses, each a part; bare is the API status itself, not wrapped.  *)
(* Reasons and messages for people are left out.                           *)
(***************************************************************************)
EXTENDS Integers, SequencesExt

\* The classes, the most severe first.
Severity == <<"Terminal", "Permanent", "Retryable", "Transient">>
Part(class, reason, after) == [class |-> class, reason |-> reason, after |-> after]

APIError(reason, after) == [parts |-> <<Part("none", reason, after)>>, bare |-> TRUE]
PlainError == [parts |-> <<>>, bare |-> FALSE]

ClassifiedError(class, after, cause) ==
  [parts |-> <<Part(class, "none", after)>> \o cause.parts, bare |-> FALSE]

Retryable(err) == ClassifiedError("Retryable", 0, err)
RetryableAfter(err, after) == ClassifiedError("Retryable", after, err)
Permanent(err) == ClassifiedError("Permanent", 0, err)
Transient(err) == ClassifiedError("Transient", 0, err)
Terminal(err) == ClassifiedError("Terminal", 0, err)

\* A missing dependency has no cause, a ValidationError is always permanent.
DependencyError(cause) == [cause EXCEPT !.bare = FALSE]
ValidationError == Permanent(PlainError)

Parts == [class : ToSet(Severity) \cup {"none"}, reason : STRING, after : Nat]
Errors == {e \in [parts : Seq(Parts), bare : BOOLEAN] : e.bare => e.parts # <<>>}

\* errors.As for a ClassifiedError, and for an APIStatus: 0 or the first index.
Classified(err) == SelectInSeq(err.parts, LAMBDA p : p.class # "none")
Status(err) == SelectInSeq(err.parts, LAMBDA p : p.reason # "none")

WrapRetryable(err) == IF Classified(err) # 0 THEN err ELSE Retryable(err)
WrapPermanent(err) == IF Classified(err) # 0 THEN err ELSE Permanent(err)

\* Any other reason, and none at all, is Retryable.
classifyKubernetesError(reason) ==
  IF reason \in {"Conflict", "ServerTimeout"} THEN "Transient"
  ELSE IF reason \in {"NotFound", "BadRequest", "Invalid", "Forbidden", "Unauthorized",
                      "MethodNotAllowed"} THEN "Permanent"
  ELSE "Retryable"

ClassifyError(err) ==
  IF Classified(err) # 0 THEN err.parts[Classified(err)].class
  ELSE IF Status(err) # 0 THEN classifyKubernetesError(err.parts[Status(err)].reason)
  ELSE "Retryable"

IsPermanent(err) == ClassifyError(err) \in {"Permanent", "Terminal"}

\* The server's own hint is only found in an API status that is not wrapped.
GetRetryAfter(err) ==
  IF Classified(err) # 0 THEN err.parts[Classified(err)].after
  ELSE IF err.bare THEN err.parts[1].after
  ELSE 0

(***************************************************************************)
(* ErrorList: the errors in the order they were added, never empty here.   *)
(* Error() of several is a MultiError, in which errors.As takes the first. *)
(***************************************************************************)
ListError(errs) ==
  IF Len(errs) = 1 THEN errs[1]
  ELSE [parts |-> FlattenSeq([i \in DOMAIN errs |-> errs[i].parts]), bare |-> FALSE]

\* The most severe class of the errors in a list.
Classification(errs) ==
  LET found == {ClassifyError(e) : e \in ToSet(errs)} IN
  CHOOSE class \in found :
    \A other \in found : SelectInSeq(Severity, LAMBDA c : c = class)
                          <= SelectInSeq(Severity, LAMBDA c : c = other)
=============================================================================
