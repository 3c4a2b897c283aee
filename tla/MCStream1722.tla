---------------------------- MODULE MCStream1722 ----------------------------
EXTENDS Stream1722

MCRates == {8000, 44100, 48000, 88200, 176400, 192000}

=============================================================================
