----------------------------- MODULE MCBooking -----------------------------
\* The instance of Booking that TLC checks: two ID documents that look alike
\* and one that does not; kinds of device are alike but for their fees.
EXTENDS Booking, TLC

CONSTANTS
    id1, \* an ID document
    id2, \* another, of the same kind and with the same last four digits
    id3  \* a third, with other digits

Documents3 == {id1, id2, id3}
LooksOf == id1 :> "1234" @@ id2 :> "1234" @@ id3 :> "5678"

Alike == Permutations(DeviceTypes) \cup Permutations({id1, id2})
=============================================================================
