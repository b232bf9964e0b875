\* socket_msg.h with its own max_body_length; size_t is scaled from 64 bits to
\* 16, which is wide enough for SizeAssumption.
CONSTANTS
    max_body_length = 1024
    SIZE_MOD = 65536
    TextLengths <- MCTextLengths
    Chars <- MCChars
    HexGroups = {"0041", "00E9", "20AC", "D83D", "DE00"}
    Outside <- MCOutside
    Inside <- MCInside
    Seeds <- MCSeeds
    Beyond = 1
SPECIFICATION MCSpec
INVARIANTS RoundTrip AcceptedFits ShortIsShorter DecodeAgrees EncodeReverses
\* A message is decoded once, and a text has an end.
CHECK_DEADLOCK FALSE
