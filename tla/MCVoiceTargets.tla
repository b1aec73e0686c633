--------------------------- MODULE MCVoiceTargets ---------------------------
EXTENDS VoiceTargets

CONSTANTS su, c1, c2

MCClients == {su, c1, c2}
\* The super user, a registered user and a guest.
MCUid == [c \in MCClients |-> CASE c = su -> 0 [] c = c1 -> 1 [] c = c2 -> -1]

MCLastChannel == [c \in MCClients |-> IF c = c1 THEN 1 ELSE Root]

Group(name) == [kind |-> "name", name |-> name, here |-> FALSE, invert |-> FALSE]

Entry(g, here, subs, allow, deny) ==
    [uid |-> 0, group |-> g, applyHere |-> here, applySubs |-> subs, allow |-> allow, deny |-> deny]

Team == [inherit |-> TRUE, inheritable |-> TRUE, add |-> {1}, remove |-> {}]

\* Nobody passes; a group may write and link below; those not in the channel of
\* the entry may neither speak nor whisper nor enter.
MCAclMessages ==
    {[channel |-> 2, inherit |-> FALSE, groups |-> <<>>, acls |-> <<Entry(Group("all"), TRUE, TRUE, {}, {"traverse"})>>],
     [channel |-> Root, inherit |-> TRUE, groups |-> "team" :> Team,
      acls |-> <<Entry(Group("team"), FALSE, TRUE, {"write", "link", "make", "temp"}, {})>>],
     [channel |-> 1, inherit |-> TRUE, groups |-> "team" :> [Team EXCEPT !.inherit = FALSE, !.remove = {1}],
      acls |-> <<Entry([Group("in") EXCEPT !.here = TRUE, !.invert = TRUE], TRUE, TRUE, {"temp"},
                       {"enter", "speak", "whisper"})>>]}

MCEdits == {[name |-> "a"], [parent |-> 1], [parent |-> 3, name |-> "m"], [add |-> 2], [remove |-> 1]}

MCUserStates == {[channel |-> Root], [channel |-> 1], [channel |-> 3, deaf |-> TRUE], [mute |-> FALSE],
                 [selfDeaf |-> TRUE, selfMute |-> FALSE]}

MCTargetMessages ==
    {[sessions |-> {c1}, channel |-> 1, children |-> TRUE, links |-> FALSE, group |-> Group("")],
     [sessions |-> {}, channel |-> 1, children |-> FALSE, links |-> TRUE, group |-> Group("team")]}

SuAndC1 == {su, c1}
OnlyC1 == {c1}
OnlyC2 == {c2}
MCNames == {"n"}
=============================================================================
