----------------------------- MODULE MCGb28181 -----------------------------
EXTENDS GbUpstream, TLC

Kinds == {"register", "unban", "message", "notify", "silent", "devbye", "invite", "playback",
          "bye", "scale", "refuse", "expire", "conn", "lost", "pub", "up", "upbye", "sub",
          "unsub", "reload"}
OneChannel == {CHOOSE c \in Channels : TRUE}
Plain == [retry |-> FALSE, auth |-> FALSE, quick |-> FALSE, tcp |-> TRUE, subs |-> {},
          ports |-> 2, names |-> {CHOOSE n \in Names : TRUE}, answers |-> {"same"}]
Subscribed == [Plain EXCEPT !.subs = Plain.names]
Scenario(cf, chans, events) ==
    [conf |-> cf, known |-> chans, left |-> events @@ [e \in Kinds |-> 0]]

\* One question each, with the outside events it needs.
MCScenarios == {
    \* wrong digests and the ban list
    Scenario([Plain EXCEPT !.auth = TRUE], {}, [register |-> 6, unban |-> 1]),
    \* a device comes, changes and goes while a channel is invited
    Scenario([Plain EXCEPT !.quick = TRUE], {},
             [message |-> 2, notify |-> 1, silent |-> 1, invite |-> 1]),
    \* the API, the device and two connections end the same dialog
    Scenario([Plain EXCEPT !.answers = {"own", "unknown"}], OneChannel,
             [invite |-> 1, conn |-> 2, bye |-> 1, devbye |-> 1]),
    \* an INVITE replaces a stream, over UDP: itself, or one of another name
    Scenario([Plain EXCEPT !.tcp = FALSE], OneChannel, [invite |-> 2, conn |-> 2]),
    Scenario([Plain EXCEPT !.tcp = FALSE, !.names = Names], OneChannel,
             [invite |-> 2, conn |-> 1]),
    \* a playback is scaled, expires, is stopped and breaks
    Scenario(Plain, OneChannel,
             [playback |-> 1, scale |-> 1, expire |-> 1, conn |-> 1, bye |-> 1, lost |-> 1]),
    \* two channels, refused INVITEs; and one port for both
    Scenario([Plain EXCEPT !.tcp = FALSE, !.names = Names, !.answers = {"own"}], Channels,
             [invite |-> 2, refuse |-> 1]),
    Scenario([Plain EXCEPT !.ports = 1, !.names = Names], Channels, [invite |-> 2]),
    \* retries after a lost stream, or after a BYE, refused, or of a silent device
    Scenario([Plain EXCEPT !.retry = TRUE], OneChannel,
             [invite |-> 1, conn |-> 1, lost |-> 1, refuse |-> 1]),
    Scenario([Plain EXCEPT !.retry = TRUE], OneChannel,
             [invite |-> 1, conn |-> 1, bye |-> 1]),
    Scenario([Plain EXCEPT !.retry = TRUE], OneChannel,
             [invite |-> 1, conn |-> 1, lost |-> 1, silent |-> 1]),
    \* platforms ask for a stream of a camera
    Scenario(Subscribed, OneChannel, [invite |-> 1, conn |-> 1, up |-> 2]),
    \* platforms ask for a stream of another publisher, leave, are unsubscribed, reloaded
    Scenario(Subscribed, {}, [up |-> 2, upbye |-> 1, pub |-> 2]),
    Scenario(Subscribed, {}, [up |-> 2, unsub |-> 1, sub |-> 1]),
    Scenario(Subscribed, {}, [up |-> 2, reload |-> 1, pub |-> 1])}

\* A lost stream nobody stops.
RetryScenario == {
    Scenario([Plain EXCEPT !.retry = TRUE], OneChannel, [invite |-> 1, conn |-> 1, lost |-> 1])}
=============================================================================
