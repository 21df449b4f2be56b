------------------------------- MODULE Errors -------------------------------
(***************************************************************************)
(* Which exception a failing response becomes: the code is that of the     *)
(* JSON body, or one made from the status when the body has none, and the  *)
(* exception class follows from the code first and the status second.      *)
(* Also what Retry-After means.                                            *)
(***************************************************************************)
EXTENDS Integers

CONSTANT NoCode     \* no usable error body

\* Mutant: a bare 403 is no different from a server's failure.
StatusToCodeWithout403(status) ==
    CASE status = 400 -> "VALIDATION_ERROR"
      [] status = 401 -> "UNAUTHORIZED"
      [] status = 404 -> "AGENT_NOT_FOUND"
      [] status = 410 -> "GROUP_DELETED"
      [] status = 429 -> "RATE_LIMITED"
      [] OTHER -> "INTERNAL_ERROR"

StatusToCode(status) ==
    CASE status = 400 -> "VALIDATION_ERROR"
      [] status = 401 -> "UNAUTHORIZED"
      [] status = 403 -> "FORBIDDEN"
      [] status = 404 -> "AGENT_NOT_FOUND"
      [] status = 410 -> "GROUP_DELETED"
      [] status = 429 -> "RATE_LIMITED"
      [] OTHER -> "INTERNAL_ERROR"

\* The class of an exception per code, and the codes of each class
CodesOf ==
    [RateLimitedError |-> {"RATE_LIMITED"},
     SuspendedError |-> {"SUSPENDED", "AGENT_SUSPENDED"},
     RestrictedError |-> {"RESTRICTED"},
     RecipientBackloggedError |-> {"RECIPIENT_BACKLOGGED"},
     AwaitingReplyError |-> {"AWAITING_REPLY"},
     BlockedError |-> {"BLOCKED"},
     ValidationError |-> {"VALIDATION_ERROR"},
     UnauthorizedError |-> {"UNAUTHORIZED", "INVALID_API_KEY"},
     ForbiddenError |-> {"FORBIDDEN", "AGENT_PAUSED_BY_OWNER"},
     NotFoundError |-> {"AGENT_NOT_FOUND", "CONVERSATION_NOT_FOUND", "MESSAGE_NOT_FOUND",
                        "OWNER_NOT_FOUND", "CLAIM_NOT_FOUND"},
     GroupDeletedError |-> {"GROUP_DELETED"},
     SystemAgentProtectedError |-> {"SYSTEM_AGENT_PROTECTED"},
     EmailLimitReachedError |-> {"EMAIL_LIMIT_REACHED", "EMAIL_TAKEN"},
     EmailExhaustedError |-> {"EMAIL_EXHAUSTED"},
     HandleRequiredError |-> {"HANDLE_REQUIRED"},
     ServerError |-> {"INTERNAL_ERROR"}]

\* Codes that have no class of their own
Unclassed == {"HANDLE_TAKEN", "INVALID_HANDLE", "ALREADY_CLAIMED"}

ErrorCodes == (UNION {CodesOf[e] : e \in DOMAIN CodesOf}) \cup Unclassed

ASSUME NoCodeAssumption == NoCode \notin ErrorCodes

ByStatus(status) ==
    CASE status = 401 -> "UnauthorizedError"
      [] status = 403 -> "ForbiddenError"
      [] status = 404 -> "NotFoundError"
      [] status = 429 -> "RateLimitedError"
      [] status >= 500 -> "ServerError"
      [] OTHER -> "AgentChatError"

ErrorClasses == DOMAIN CodesOf \cup {"AgentChatError", "ConnectionError"}

\* create_agentchat_error
ErrorClass(code, status) ==
    IF \E e \in DOMAIN CodesOf : code \in CodesOf[e]
    THEN CHOOSE e \in DOMAIN CodesOf : code \in CodesOf[e]
    ELSE ByStatus(status)

\* Mutant: without a body the code is taken for the class.
RaisedUntranslated(code, status) ==
    IF code = NoCode THEN StatusToCode(status) ELSE ErrorClass(code, status)

\* The exception an answer with this status and body is raised as
Raised(code, status) ==
    ErrorClass(IF code = NoCode THEN StatusToCode(status) ELSE code, status)

----------------------------------------------------------------------------
(* Retry-After *)

CONSTANT NoDelay    \* no header, or one that is neither a number nor a date

\* A header is NoDelay, [form |-> "seconds", at |-> n] or [form |-> "date",
\* at |-> ms]: how far the date lies ahead, negative when it has passed.
RetryAfterMs(header) ==
    CASE header = NoDelay -> NoDelay
      [] header # NoDelay /\ header.form = "seconds" -> header.at * 1000
      [] OTHER -> IF header.at > 0 THEN header.at ELSE 0
=============================================================================
