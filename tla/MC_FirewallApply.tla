------------------------- MODULE MC_FirewallApply -------------------------
(* portmap.txt and filter.txt of up to two lines, taken from lines of the   *)
(* form the "sfirewall nat portmap" and "sfirewall filter" commands save,  *)
(* a line with too few words and a line of another command.                *)
EXTENDS FirewallApply

MC_NatLines ==
    { "sfirewall nat portmap 10 wan 192.168.8.100 tcp 8080 80",
      "sfirewall nat portmap 11 vpn 10.0.0.5 udp 0 0",
      "sfirewall nat portmap 12 wan 10.0.0.6",
      "ip route 0.0.0.0/0 10.0.0.1 wan" }

MC_FilterLines ==
    { "sfirewall filter 10 lan2wan fw insert deny tcp 0.0.0.0/0 any 0.0.0.0/0 80 mon|fri 21:00 09:00",
      "sfirewall filter 11 wan2lan in append permit udp 10.0.0.0/8 any 0.0.0.0/0 any any any any",
      "sfirewall filter 12 lan2wan fw" }

=============================================================================
