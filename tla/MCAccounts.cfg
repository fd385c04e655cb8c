\* Three requests, two at a time, three messages, and one fault of each kind.
SPECIFICATION FairSpec
CONSTANTS
    ann = ann
    ben = ben
    cat = cat
    dan = dan
    b1 = b1
    None = None
    User = {ann, ben, cat, dan}
    BVN = {b1}
    Members <- MCMembers
    Applicants <- MCApplicants
    Uses <- MCUses
    Sent <- MCSent
    MaxOpen = 2
    MaxEvents = 3
    MaxByHand = 1
    MaxMessages = 3
    MaxRetries = 1
    MaxFaults = 1
INVARIANTS TypeOK TaskOutcome VerifiedByMail FewLinks FewShareBVN TierFollowsBVN
PROPERTIES DeadLinksStayDead UndisturbedDecides MailArrives
\* Every request may have been served and every message sent.
CHECK_DEADLOCK FALSE
