--------------------------- MODULE MCChannelAdmin ---------------------------
(* Constants of the ChannelAdmin runs: two uids, a group channel "g" and a  *)
(* person channel "p" whose id is already canonical.                      *)
EXTENDS ChannelAdmin

MCUids == {"u1", "u2"}
MCChanType == [k \in {"g", "p"} |-> IF k = "g" THEN "group" ELSE "person"]

UidSets == SUBSET MCUids
NonEmpty == UidSets \ {{}}

(* Every request an admin client may send for the channels of KeySet that  *)
(* passes the handler's early checks.                                     *)
AllHandlers(KeySet) ==
    LET Group == {k \in KeySet : MCChanType[k] = "group"} IN
       [op : {"createOrUpdate"}, key : Group, list : {"none"}, uids : UidSets,
        tmp : {FALSE}, reset : {FALSE}]
    \cup [op : {"updateInfo", "delete"}, key : KeySet, list : {"none"}, uids : {{}},
          tmp : {FALSE}, reset : {FALSE}]
    \cup [op : {"subscriberAdd"}, key : Group, list : {"none"}, uids : NonEmpty,
          tmp : BOOLEAN, reset : BOOLEAN]
    \cup [op : {"subscriberRemove"}, key : KeySet, list : {"none"}, uids : NonEmpty,
          tmp : BOOLEAN, reset : {FALSE}]
    \cup [op : {"listAdd", "listRemove"}, key : KeySet, list : {"allow", "deny"},
          uids : NonEmpty, tmp : {FALSE}, reset : {FALSE}]
    \cup [op : {"listSet"}, key : KeySet, list : {"allow", "deny"}, uids : UidSets,
          tmp : {FALSE}, reset : {FALSE}]

MCKeysGroup == {"g"}
MCKeysPerson == {"p"}
MCHandlersGroup == AllHandlers(MCKeysGroup)
MCHandlersPerson == AllHandlers(MCKeysPerson)
=============================================================================
