----------------------------- MODULE Subscriptions -----------------------------
(***************************************************************************)
(* A chat's subscription, which it commands through the bot                 *)
(* (telegram_bot/main.py, bot.py) and others through the API                *)
(* (signal_api/app.py).  Telegram keeps what the bot has not confirmed with *)
(* the offset of a later poll; the offset lives in the bot.  A subscription *)
(* is a check and an insertion, and no key of the table keeps a chat from   *)
(* having two active rows.                                                 *)
(***************************************************************************)
EXTENDS Integers, Sequences, FiniteSets

CONSTANTS
    Client,         \* callers of the API
    MaxCommands,    \* bound on commands of the chat
    MaxRows,        \* bound on rows
    MaxBotDeaths    \* bound on deaths of the bot

VARIABLES
    commands,       \* what the chat sent: an update's identifier is its place
    confirmed,      \* updates Telegram has dropped
    offset,         \* the bot's offset, 0 for None
    batch,          \* updates of the last poll not yet handled: <<first, last>>
    checked,        \* the bot found no active row and is about to insert one
    activeRows,     \* active rows of the chat in signal_subscriptions
    nextRow,        \* the next row's identifier
    client,         \* callers that found no active row
    touched,        \* history: the API changed a row
    botDeaths

vars == <<commands, confirmed, offset, batch, checked, activeRows, nextRow, client, touched,
          botDeaths>>

Nothing == <<1, 0>>

Init ==
    /\ commands = <<>> /\ confirmed = 0 /\ offset = 0
    /\ batch = Nothing /\ checked = FALSE
    /\ activeRows = {} /\ nextRow = 1
    /\ client = [k \in Client |-> FALSE]
    /\ touched = FALSE /\ botDeaths = 0

Send ==
    /\ Len(commands) < MaxCommands
    /\ \E command \in {"/subscribe", "/unsubscribe"} : commands' = Append(commands, command)
    /\ UNCHANGED <<confirmed, offset, batch, checked, activeRows, nextRow, client, touched,
                   botDeaths>>

ConfirmedAtOnce(o) == Len(commands)

\* What a poll with this offset confirms: the updates before it.
Confirmed(o) == IF o = 0 THEN confirmed ELSE o - 1

\* get_updates; one that fails returns nothing, whether Telegram saw it or not.
Poll ==
    /\ batch[1] > batch[2]
    /\ \/ /\ confirmed' = Confirmed(offset)
          /\ batch' \in {<<(IF offset = 0 THEN confirmed ELSE offset - 1) + 1, Len(commands)>>, batch}
       \/ UNCHANGED <<confirmed, batch>>
    /\ UNCHANGED <<commands, offset, checked, activeRows, nextRow, client, touched, botDeaths>>

NextUpdate == batch' = <<batch[1] + 1, batch[2]>>

\* The offset moves before the command is handled, and is confirmed later.
HandleSubscribe ==
    /\ batch[1] <= batch[2] /\ commands[batch[1]] = "/subscribe" /\ ~checked
    /\ offset' = batch[1] + 1
    /\ IF activeRows # {} THEN NextUpdate /\ UNCHANGED checked
       ELSE checked' = TRUE /\ UNCHANGED batch
    /\ UNCHANGED <<commands, confirmed, activeRows, nextRow, client, touched, botDeaths>>

Insert ==
    /\ nextRow <= MaxRows
    /\ activeRows' = activeRows \cup {nextRow}
    /\ nextRow' = nextRow + 1

HandleInsert ==
    /\ checked
    /\ Insert
    /\ checked' = FALSE
    /\ NextUpdate
    /\ UNCHANGED <<commands, confirmed, offset, client, touched, botDeaths>>

HandleUnsubscribe ==
    /\ batch[1] <= batch[2] /\ commands[batch[1]] = "/unsubscribe"
    /\ offset' = batch[1] + 1
    /\ activeRows' = {}
    /\ NextUpdate
    /\ UNCHANGED <<commands, confirmed, checked, nextRow, client, touched, botDeaths>>

\* Also when the database refuses a statement: nothing in poll_loop catches it.
CrashBot ==
    /\ botDeaths < MaxBotDeaths
    /\ botDeaths' = botDeaths + 1
    /\ offset' = 0 /\ batch' = Nothing /\ checked' = FALSE
    /\ UNCHANGED <<commands, confirmed, activeRows, nextRow, client, touched>>

ApiCheck(k) ==
    /\ ~client[k] /\ activeRows = {}
    /\ client' = [client EXCEPT ![k] = TRUE]
    /\ UNCHANGED <<commands, confirmed, offset, batch, checked, activeRows, nextRow, touched,
                   botDeaths>>

ApiInsert(k) ==
    /\ client[k]
    /\ Insert
    /\ client' = [client EXCEPT ![k] = FALSE]
    /\ touched' = TRUE
    /\ UNCHANGED <<commands, confirmed, offset, batch, checked, botDeaths>>

ApiUnsubscribe ==
    /\ \E row \in activeRows : activeRows' = activeRows \ {row}
    /\ touched' = TRUE
    /\ UNCHANGED <<commands, confirmed, offset, batch, checked, nextRow, client, botDeaths>>

Next ==
    \/ Send \/ Poll \/ HandleSubscribe \/ HandleInsert \/ HandleUnsubscribe \/ CrashBot
    \/ ApiUnsubscribe
    \/ \E k \in Client : ApiCheck(k) \/ ApiInsert(k)

Spec == Init /\ [][Next]_vars

----------------------------------------------------------------------------
(* Properties *)

\* The bot is done with every command, or Telegram has dropped every one.
Caught ==
    /\ batch[1] > batch[2]
    /\ \/ offset = Len(commands) + 1
       \/ confirmed = Len(commands)

\* Once the bot has caught up, or Telegram holds nothing for it, the chat is
\* subscribed, once, if and only if its last command says so, although a bot that
\* died hears commands again.
LastCommandWins ==
    Caught /\ ~touched =>
        Cardinality(activeRows) =
            IF commands # <<>> /\ commands[Len(commands)] = "/subscribe" THEN 1 ELSE 0

\* However subscriptions race, a chat has no more active rows than there are bot
\* and callers at once.
DuplicatesBounded == Cardinality(activeRows) <= 1 + Cardinality(Client)
=============================================================================
