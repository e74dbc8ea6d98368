--------------------------- MODULE ServiceClients ---------------------------
(* The HTTP clients of the services the program calls: the language model      *)
(* (OpenRouter), OMDb and Discord's OAuth.  They keep no state; what matters to *)
(* their callers is what becomes of each kind of reply.                        *)

\* The replies _make_request can meet.  "incomplete" is a JSON object without the
\* field that is asked for, "odd" one where it cannot be used: no list of choices,
\* 'N/A' for a rating, an account that is no number.
Replies == {"timeout", "unreachable", "too_many_requests", "other_status", "empty",
            "not_json", "not_object", "incomplete", "odd", "not_found", "error", "complete"}

\* AsyncHTTPBaseClient._get_response_data for a JSON answer: nothing at all is
\* None, which a caller that expects an object only finds out by using it.
Data(reply) ==
  CASE reply = "empty" -> "None"
    [] reply = "not_json" -> "ValueError"
    [] OTHER -> "json"

\* AsyncHTTPBaseClient._make_request: the status counts before the content.
Fetch(reply) ==
  CASE reply = "timeout" -> "TimeoutException"
    [] reply = "unreachable" -> "TransportError"
    [] reply \in {"too_many_requests", "other_status"} -> "HTTPStatusError"
    [] OTHER -> Data(reply)

IsObject(reply) == Fetch(reply) = "json" /\ reply # "not_object"

\* run_create_completion: the text, the default message, or an exception.
Completion(reply) ==
  CASE IsObject(reply) /\ reply = "complete" -> "text"
    [] Fetch(reply) = "TimeoutException" -> "default"
    [] reply = "too_many_requests" -> "default"
    [] IsObject(reply) /\ reply \notin {"complete", "odd"} -> "default"
    [] OTHER -> "raised"

Completions == {Completion(reply) : reply \in Replies}

\* AsyncOMDbClient._make_request: a JSON object that has an 'Error' raises.
OMDb(reply) ==
  CASE ~ IsObject(reply) -> "raised"
    [] reply = "not_found" -> "Movie not found!"
    [] reply = "error" -> "OMDbError"
    [] OTHER -> "json"

\* Media.populate_meta_mark: a rating, none because the title is not known, or an
\* exception, which an unrated title ('N/A') raises as well.
MetaMark(reply) ==
  CASE OMDb(reply) = "json" /\ reply = "complete" -> "rated"
    [] OMDb(reply) = "Movie not found!" -> "unknown"
    [] OTHER -> "raised"

\* Only movies, serials and anime are asked for.
Marks == {MetaMark(reply) : reply \in Replies} \cup {"not asked"}

\* DiscordOAuthClient.identify: both answers, the token and the account it is good
\* for, must be complete; a redirect is not followed.
Identified(token, user) ==
  \A reply \in {token, user} : IsObject(reply) /\ reply = "complete"
=============================================================================
