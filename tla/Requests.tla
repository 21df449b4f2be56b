------------------------------ MODULE Requests ------------------------------
(***************************************************************************)
(* Which HTTP request each method of the REST clients makes, as far as the *)
(* retry decision and the answer it accepts depend on it.  The two clients *)
(* are written out by hand in the source, and so they are here.            *)
(***************************************************************************)

\* retry: the argument of the transport's request(), "default" when left out;
\* msgId: the body carries a client_msg_id, which stays the same over the
\* attempts of a call; location: a redirect with a Location is the answer;
\* masks: a NotFoundError is turned into None
Plain(method) ==
    [method |-> method, retry |-> "default", msgId |-> FALSE,
     location |-> FALSE, masks |-> FALSE]

AsyncPlain(method) == Plain(method)

Methods == {"GET", "PUT", "DELETE", "POST", "PATCH"}

\* The methods named, each making that request
Ops(request, names) == {[op |-> n, request |-> request] : n \in names}

Get(names) == Ops(Plain("GET"), names)
Put(names) == Ops(Plain("PUT"), names)
Del(names) == Ops(Plain("DELETE"), names)
Post(names) == Ops(Plain("POST"), names)
Patch(names) == Ops(Plain("PATCH"), names)

----------------------------------------------------------------------------
(* AgentChatClient *)

SyncSignup ==
    Ops([Plain("POST") EXCEPT !.retry = "never"],
        {"register", "verify", "recover", "recover_verify"})

SyncProfile ==
    Get({"get_me", "get_agent"}) \cup Patch({"update_agent"})
        \cup Del({"delete_agent", "remove_avatar"}) \cup Put({"set_avatar"})
        \cup Post({"rotate_key", "rotate_key_verify"})

\* Mutant: the id that makes the retry harmless is left out of the body.
SyncSendWithoutId ==
    Ops([Plain("POST") EXCEPT !.retry = "auto"], {"send_message"})

SyncSend ==
    Ops([Plain("POST") EXCEPT !.retry = "auto", !.msgId = TRUE], {"send_message"})

SyncMessages ==
    Get({"get_messages", "get_conversation_participants", "list_conversations"})
        \cup Post({"mark_as_read"}) \cup Del({"delete_message", "hide_conversation"})

SyncGroups ==
    Get({"get_group", "list_group_invites"}) \cup Patch({"update_group"})
        \cup Put({"set_group_avatar"})
        \cup Del({"delete_group", "remove_group_avatar", "remove_group_member",
                  "reject_group_invite"})
        \cup Post({"create_group", "add_group_member", "promote_group_member",
                   "demote_group_member", "leave_group", "accept_group_invite"})

\* contacts() iterates over pages of list_contacts().
SyncContacts ==
    Get({"list_contacts", "check_contact"}) \cup Patch({"update_contact_notes"})
        \cup Del({"remove_contact", "unblock_agent"})
        \cup Post({"add_contact", "block_agent", "report_agent"})

SyncMutes ==
    Get({"list_mutes"}) \cup Post({"mute_agent", "mute_conversation"})
        \cup Del({"unmute_agent", "unmute_conversation"})
        \cup Ops([Plain("GET") EXCEPT !.masks = TRUE],
                 {"get_agent_mute_status", "get_conversation_mute_status"})

\* search_agents_all() iterates over pages of search_agents().
SyncPresence ==
    Get({"get_presence", "search_agents"}) \cup Put({"update_presence"})
        \cup Post({"get_presence_batch"})

SyncAttachments ==
    Post({"create_upload"})
        \cup Ops([Plain("GET") EXCEPT !.location = TRUE], {"get_attachment_download_url"})

SyncRead == Get({"sync"}) \cup Post({"sync_ack"})

SyncResources ==
    Get({"inbox.tray", "texts.get"}) \cup Post({"decisions.record", "conversations.mark_read"})

SyncOps ==
    SyncSignup \cup SyncProfile \cup SyncSend \cup SyncMessages \cup SyncGroups
        \cup SyncContacts \cup SyncMutes \cup SyncPresence \cup SyncAttachments
        \cup SyncRead \cup SyncResources

----------------------------------------------------------------------------
(* AsyncAgentChatClient *)

AsyncGet(names) == Ops(AsyncPlain("GET"), names)
AsyncPut(names) == Ops(AsyncPlain("PUT"), names)
AsyncDel(names) == Ops(AsyncPlain("DELETE"), names)
AsyncPost(names) == Ops(AsyncPlain("POST"), names)
AsyncPatch(names) == Ops(AsyncPlain("PATCH"), names)

AsyncSignup ==
    Ops([AsyncPlain("POST") EXCEPT !.retry = "never"],
        {"register", "verify", "recover", "recover_verify"})

AsyncProfile ==
    AsyncGet({"get_me", "get_agent"}) \cup AsyncPatch({"update_agent"})
        \cup AsyncDel({"delete_agent", "remove_avatar"}) \cup AsyncPut({"set_avatar"})
        \cup AsyncPost({"rotate_key", "rotate_key_verify"})

AsyncSend ==
    Ops([AsyncPlain("POST") EXCEPT !.retry = "auto", !.msgId = TRUE], {"send_message"})

AsyncMessages ==
    AsyncGet({"get_messages", "get_conversation_participants", "list_conversations"})
        \cup AsyncPost({"mark_as_read"})
        \cup AsyncDel({"delete_message", "hide_conversation"})

AsyncGroups ==
    AsyncGet({"get_group", "list_group_invites"}) \cup AsyncPatch({"update_group"})
        \cup AsyncPut({"set_group_avatar"})
        \cup AsyncDel({"delete_group", "remove_group_avatar", "remove_group_member",
                       "reject_group_invite"})
        \cup AsyncPost({"create_group", "add_group_member", "promote_group_member",
                        "demote_group_member", "leave_group", "accept_group_invite"})

AsyncContacts ==
    AsyncGet({"list_contacts", "check_contact"}) \cup AsyncPatch({"update_contact_notes"})
        \cup AsyncDel({"remove_contact", "unblock_agent"})
        \cup AsyncPost({"add_contact", "block_agent", "report_agent"})

AsyncMutes ==
    AsyncGet({"list_mutes"}) \cup AsyncPost({"mute_agent", "mute_conversation"})
        \cup AsyncDel({"unmute_agent", "unmute_conversation"})
        \cup Ops([AsyncPlain("GET") EXCEPT !.masks = TRUE],
                 {"get_agent_mute_status", "get_conversation_mute_status"})

AsyncPresence ==
    AsyncGet({"get_presence", "search_agents"}) \cup AsyncPut({"update_presence"})
        \cup AsyncPost({"get_presence_batch"})

AsyncAttachments ==
    AsyncPost({"create_upload"})
        \cup Ops([AsyncPlain("GET") EXCEPT !.location = TRUE],
                 {"get_attachment_download_url"})

AsyncRead == AsyncGet({"sync"}) \cup AsyncPost({"sync_ack"})

AsyncResources ==
    AsyncGet({"inbox.tray", "texts.get"})
        \cup AsyncPost({"decisions.record", "conversations.mark_read"})

AsyncOps ==
    AsyncSignup \cup AsyncProfile \cup AsyncSend \cup AsyncMessages \cup AsyncGroups
        \cup AsyncContacts \cup AsyncMutes \cup AsyncPresence \cup AsyncAttachments
        \cup AsyncRead \cup AsyncResources

----------------------------------------------------------------------------
\* The requests the methods of a client make
RequestsOf(client) ==
    {o.request : o \in IF client = "sync" THEN SyncOps ELSE AsyncOps}
=============================================================================
