------------------------------ MODULE MCFirstBoot -----------------------------
EXTENDS FirstBoot
MCNetworks == {{"wpa2"}}
MCVisits == {<<"right", "scan", "commit">>, <<"wrong", "right", "commit">>,
             <<"scan", "scan", "poll">>, <<"page", "config", "right">>}
===============================================================================
