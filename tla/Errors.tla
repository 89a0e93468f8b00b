------------------------------- MODULE Errors -------------------------------
(* Error codes and their conversions (errors.go), and an error's way from the  *)
(* server's handler into a response and out of it at the client. A code of     *)
(* gRPC or Twirp that has the name of a code of ours is written as that code.  *)
EXTENDS Naturals

OK == ""

GRPCCodes ==
    {OK, "canceled", "unknown", "invalid_argument", "deadline_exceeded", "not_found",
     "already_exists", "permission_denied", "resource_exhausted", "failed_precondition",
     "aborted", "out_of_range", "unimplemented", "internal", "unavailable", "data_loss",
     "unauthenticated"}

ErrorCodes ==
    GRPCCodes \cup
    {"malformed_request", "malformed_result", "not_acceptable", "unprocessable_entity",
     "upstream_server_error", "upstream_client_error"}

ToHTTP(e) ==
    CASE e = OK -> 200
      [] e \in {"invalid_argument", "malformed_request"} -> 400
      [] e = "unauthenticated" -> 401
      [] e = "permission_denied" -> 403
      [] e = "not_found" -> 404
      [] e = "not_acceptable" -> 406
      [] e \in {"already_exists", "aborted"} -> 409
      [] e = "failed_precondition" -> 412
      [] e = "out_of_range" -> 416
      [] e = "unprocessable_entity" -> 422
      [] e = "upstream_client_error" -> 424
      [] e = "resource_exhausted" -> 429
      [] e = "unimplemented" -> 501
      [] e = "upstream_server_error" -> 502
      [] e \in {"canceled", "deadline_exceeded", "unavailable"} -> 503
      [] OTHER -> 500

ToGRPC(e) ==
    CASE e \in GRPCCodes -> e
      [] e \in {"malformed_request", "upstream_client_error"} -> "invalid_argument"
      [] e \in {"malformed_result", "upstream_server_error"} -> "internal"
      [] OTHER -> "unknown"

ErrorCodeFromGRPC(c) == IF c \in GRPCCodes THEN c ELSE "unknown"

ToTwirp(e) ==
    CASE e \in GRPCCodes -> e
      [] e \in {"malformed_request", "malformed_result"} -> "malformed"
      [] e = "upstream_server_error" -> "internal"
      [] e = "upstream_client_error" -> "invalid_argument"
      [] OTHER -> "unknown"

-----------------------------------------------------------------------------
(* An error: one of ours, a gRPC status, any other, or our report that nothing *)
(* was subscribed; does it have a text, and the wait it cut short.             *)
Err(kind, code, text, wait) == [kind |-> kind, code |-> code, text |-> text, wait |-> wait]

NoErr == Err("none", OK, FALSE, 0)

NewError(code) == Err("psrpc", code, TRUE, 0)

NewNoSubscriberError(wait) == Err("noSubscriber", "unavailable", TRUE, wait)

ErrRequestCanceled == NewError("canceled")
ErrRequestTimedOut == NewError("deadline_exceeded")
ErrNoResponse == NewError("unavailable")
ErrClientClosed == NewError("canceled")

(* GetErrorCode, with the code alone: it finds none in any other error.        *)
HasCode(e) == e.kind # "plain"

GetErrorCode(e) ==
    CASE e.kind = "status" -> ErrorCodeFromGRPC(e.code)
      [] e.kind = "plain" -> "unknown"
      [] OTHER -> e.code

-----------------------------------------------------------------------------
(* What a handler may return: an error of ours, a status, or any other error.  *)
(* One without a text is like any other without.                               *)
HandlerErrors ==
    {NewError(c) : c \in ErrorCodes}
    \cup {Err("status", c, TRUE, 0) : c \in GRPCCodes}
    \cup {Err("plain", "unknown", TRUE, 0)}
    \cup {Err(kind, "unavailable", FALSE, 0) : kind \in {"psrpc", "status", "plain"}}

(* WithServerRecovery: a panic is an error of ours.                            *)
Recovered == NewError("internal")

(* sendResponse: a status of OK is no status.                                  *)
MutSendResponse(e) ==
    IF e = NoErr THEN [error |-> FALSE, code |-> OK]
    ELSE [error |-> e.text, code |-> IF e.kind = "psrpc" THEN e.code ELSE "unknown"]

SendResponse(e) ==
    IF e = NoErr THEN [error |-> FALSE, code |-> OK]
    ELSE [error |-> e.text,
          code |-> CASE e.kind = "psrpc" -> e.code
                     [] e.kind = "status" /\ e.code # OK -> ErrorCodeFromGRPC(e.code)
                     [] OTHER -> "unknown"]

(* SerializePayload fails in sendResponse, or DeserializePayload in newRPC.    *)
Malformed == NewError("malformed_result")

NewErrorFromResponse(code) == NewError(IF code = OK THEN "unknown" ELSE code)

(* newRPC, when the response is there: no text, no error.                      *)
Decode(res) == IF res.error THEN NewErrorFromResponse(res.code) ELSE NoErr

=============================================================================
