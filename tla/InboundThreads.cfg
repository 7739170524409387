\* Slack and whatsapp with two envelopes or one request, delivered once: enough
\* for a message that comes while another is being answered.
SPECIFICATION Spec
CONSTANTS
    c1 = c1
    c2 = c2
    alice = alice
    mallory = mallory
    Allowed <- AllowedUsers
    Envelopes <- SlackEnvelopes
    Requests <- WhatsAppRequests
    MaxEnvelopes = 2
    MaxRequests = 1
    MaxRepeated = 0
INVARIANT ReplyInThread
CHECK_DEADLOCK FALSE
