--------------------------- MODULE MCSer2netPort ---------------------------
(* Small instances of Ser2netPort: one unit of banner and open string, two *)
(* of close string (so that it can be cut short), in every mode.           *)
EXTENDS Ser2netPort

Config(modes, banners, opens, closes, remctls) ==
    [enabled : modes, banner : banners, openstr : opens,
     closestr : closes, remctl : remctls]

AllConfigs == Config({"raw", "rawlp"}, {0, 1}, {0, 1}, {0, 2}, {FALSE})
              \cup Config({"telnet"}, {0, 1}, {0, 1}, {0, 2}, {TRUE})
RawStrings == Config({"raw"}, {1}, {1}, {0}, {FALSE})

=============================================================================
